---- MODULE Spec2Model ----
(***************************************************************************)
(* State-machine model of the rewards backend of src/api/index.js.         *)
(*                                                                         *)
(* The record store (Supabase REST) is the shared state.  Every request    *)
(* is a process; one step of a request is one store call together with     *)
(* the synchronous code that follows it up to the next await, so requests  *)
(* interleave exactly at the awaits of the handlers.  Time is the          *)
(* millisecond clock read by Date.now().  A balance is kept as a number of  *)
(* hundredths of a coin together with the distance, in ulps, of the stored *)
(* double from that decimal number.                                        *)
(***************************************************************************)
EXTENDS Integers, Sequences, FiniteSets, Bags, TLC

\* ------------------------------------------------------------------------
\* Server-side constants (src/api/index.js:19-31)
\* ------------------------------------------------------------------------
REWARD_PER_AD == 3
REFERRAL_COMMISSION_PERCENT == 5
DAILY_MAX_ADS == 100
DAILY_MAX_SPINS == 15
RESET_INTERVAL_MS == 6 * 60 * 60 * 1000
MIN_TIME_BETWEEN_ACTIONS_MS == 3000
ACTION_ID_EXPIRY_MS == 60000
SPIN_SECTORS == <<5, 10, 15, 20, 5>>
TASK_REWARD == 50
MIN_WITHDRAW == 1000

\* Balances are stored in hundredths of a coin.
Scale == 100

\* A JSON null timestamp / reference.  Real timestamps are > 0.
NULL == 0

\* The value that is not a number: parseFloat of a non-numeric string (NaN),
\* which JSON.stringify sends to the store as null.
NaN == -1

\* A stored value read back into arithmetic: null counts as 0.
ToNumber(x) == IF x = NaN THEN 0 ELSE x

\* a < b and a <= b on values one of which may be NaN: a comparison with NaN
\* is false.
LessThan(a, b) == a # NaN /\ b # NaN /\ a < b

AtMost(a, b) == a # NaN /\ b # NaN /\ a <= b

\* ------------------------------------------------------------------------
\* Numbers (JavaScript numbers are IEEE 754 doubles)
\* ------------------------------------------------------------------------
\* An amount of coins is the pair [c, d]: the double that lies d ulps above
\* the double nearest to c hundredths (d = 0: the double that a decimal
\* literal with two places denotes, and every whole number of coins).  The
\* operators below compute the sum, the difference and the product as the
\* double arithmetic does, rounding the exact result to the nearest double,
\* ties to the even mantissa.  Distances are counted in units of
\* 2^-59 / 25 coin, of which a hundredth has 2^57 and the ulp of the
\* doubles in [2^k, 2^(k+1)) has 25 * 2^(k+7); amounts are below 2048 coins.
Double(c) == [c |-> c, d |-> 0]

\* 2^n modulo m, for n below 60 and m at most 50: 2^n is the product of
\* n \div 15 factors 2^15 and of 2^(n % 15).
Pow2Mod(n, m) == (((2^15 % m)^(n \div 15)) * 2^(n % 15)) % m

\* The k with 2^k <= c/100 < 2^(k+1), for c in 1..204799.
Binade(c) == CHOOSE k \in -7..10 : 100 * 2^(k + 7) <= 128 * c /\ 128 * c < 100 * 2^(k + 8)

\* c/100 is a power of two: the doubles below it are spaced half as wide.
IsPowerOfTwo(c) == \E k \in -2..10 : 4 * c = 100 * 2^(k + 2)

\* The binade of the number that lies e units from c/100.
BinadeNear(c, e) == IF IsPowerOfTwo(c) /\ e < 0 THEN Binade(c) - 1 ELSE Binade(c)

Ulp(k) == 25 * 2^(k + 7)

\* The distance of c/100 from the double of binade k next below it, and
\* whether the mantissa of that double is odd.
GridOffset(c, k) == 2^(k + 7) * ((c * Pow2Mod(50 - k, 25)) % 25)

GridOdd(c, k) == ((c * Pow2Mod(50 - k, 50)) % 50) \div 25

\* 1 when the double nearest to c/100 is the one above it, else 0.
NearestAbove(c, k) == IF 2 * GridOffset(c, k) > Ulp(k) THEN 1 ELSE 0

\* The element of a set of one element.  (The value of an expression is
\* computed once by binding it to a variable: v \in {e}.)
The(S) == CHOOSE v \in S : TRUE

\* The distance of the number [c, d] from c/100, c/100 lying in binade k.
ExcessOf(c, d, k) ==
    NearestAbove(c, k) * Ulp(k) - GridOffset(c, k)
        + d * Ulp(IF IsPowerOfTwo(c) /\ d < 0 THEN k - 1 ELSE k)

\* The distance of the number [c, d] from c/100.
Excess(x) ==
    IF x.c = 0 THEN x.d
    ELSE The({ExcessOf(c, d, k) : c \in {x.c}, d \in {x.d}, k \in {Binade(x.c)}})

\* The double of binade k nearest to the number that lies t units above the
\* double of that binade next below c/100: ties go to the even mantissa.
RoundOff(c, k, t) ==
    LET q == t \div Ulp(k)
        r == t % Ulp(k)
        up == \/ 2 * r > Ulp(k)
              \/ 2 * r = Ulp(k) /\ (GridOdd(c, k) + q) % 2 = 1
    IN  [c |-> c, d |-> q + (IF up THEN 1 ELSE 0) - NearestAbove(c, k)]

RoundInBinade(c, e, k) == The({RoundOff(c, k, t) : t \in {GridOffset(c, k) + e}})

\* The double nearest to the number that lies e units from c/100.  (A number
\* of less than a hundredth keeps its distance from zero.)
RoundNear(c, e) ==
    IF c = 0 THEN [c |-> 0, d |-> e]
    ELSE The({RoundInBinade(c, e, k) : k \in {BinadeNear(c, e)}})

RoundToDouble(c, e) == The({RoundNear(c1, e1) : c1 \in {c}, e1 \in {e}})

\* x + y, x - y and n * x in doubles, n a whole number.
Plus(x, y) == RoundToDouble(x.c + y.c, Excess(x) + Excess(y))

Difference(x, y) == RoundToDouble(x.c - y.c, Excess(x) - Excess(y))

Times(n, x) == RoundToDouble(n * x.c, n * Excess(x))

\* x < y
Below(x, y) == x.c < y.c \/ (x.c = y.c /\ x.d < y.d)

\* REFERRAL_COMMISSION_RATE = 0.05
REFERRAL_COMMISSION_RATE == Double(REFERRAL_COMMISSION_PERCENT)

\* The balance of a users row as a number (null counts as 0 in arithmetic).
BalanceOf(user) ==
    [c |-> ToNumber(user.balance), d |-> IF user.balance = NaN THEN 0 ELSE user.balance_ulps]

\* The columns of a users row that hold the number x.
BalanceColumns(x) == [balance |-> x.c, balance_ulps |-> x.d]

\* ------------------------------------------------------------------------
\* Bounds of the model
\* ------------------------------------------------------------------------
\* Number of requests of one behaviour.
MaxReq == 2
\* Clock value of the initial state.
StartTime == 30000000
\* Number of instants after StartTime that the clock can show.
MaxTicks == 2
\* Number of generateActionId requests of one behaviour.
MaxNewTokens == 1

UserIds == {1, 2}
TaskIds == {1}

ActionTypes ==
    {"watchAd", "preSpin", "spinResult", "withdraw", "completeTask", "completeNewTask"}

VARIABLES
    now,                \* Date.now()
    users,              \* table users: [UserIds -> row]
    temp_actions,       \* table temp_actions: set of rows
    issued,             \* history: <<user_id, action_type, created_at>> of every token
                        \* ever inserted, in order; the i-th has row id i and value i
    tasks_new,          \* table tasks_new: [TaskIds -> row]
    user_tasks_new,     \* table user_tasks_new: sequence of rows
    withdrawal_history, \* table withdrawal_history: sequence of rows
    commission_history, \* table commission_history: sequence of rows
    reqs,               \* the requests received so far: a bag of requests
    accepted,           \* history: <<user, action_id, type>> accepted by validateAndUseActionId
    last_grant          \* history: per user, the last_activity stamp and the token of the
                        \* reward or debit PATCH applied last (NULL: none so far)

vars ==
    <<now, users, temp_actions, issued, tasks_new, user_tasks_new,
      withdrawal_history, commission_history, reqs, accepted, last_grant>>

history == <<accepted, last_grant>>

store == <<users, temp_actions, issued, tasks_new, user_tasks_new,
           withdrawal_history, commission_history>>

\* ------------------------------------------------------------------------
\* Rows and requests
\* ------------------------------------------------------------------------
\* The action types of the two temp_actions rows of an initial state.
InitTokenPlans ==
    {<<k, k>> : k \in ActionTypes} \cup {<<"preSpin", "spinResult">>}

\* A token value that generateActionId never produced.
BogusActionId == -1

\* The absent action_id of a request body (falsy in validateAndUseActionId).
NoActionId == 0

NoRecord == [id |-> 0, created_at |-> 0, expired |-> FALSE]

NoTask == [present |-> FALSE, task_reward |-> 0, max_users |-> 0, current_users |-> 0,
           is_active |-> FALSE]

NewUser(refBy, t) ==
    [present |-> TRUE, balance |-> 0, balance_ulps |-> 0, is_banned |-> FALSE,
     ads_watched_today |-> 0, spins_today |-> 0,
     ads_limit_reached_at |-> NULL, spins_limit_reached_at |-> NULL,
     ref_by |-> refBy, last_activity |-> t, task_completed |-> FALSE]

NoUser == [NewUser(NULL, NULL) EXCEPT !.present = FALSE]

\* ------------------------------------------------------------------------
\* validateInitData (the signed session token of the chat platform)
\* ------------------------------------------------------------------------
\* process.env.BOT_TOKEN, configured.
BOT_TOKEN == "bot token"

\* expirationTime
InitDataExpiry == 1200 * 1000

\* initData: the key its hash was computed with (the HMAC of the data under
\* another key is another hash) and its auth_date in seconds, or NULL.
NoInitData == [present |-> FALSE, signed_with |-> "", auth_date |-> NULL]

\* The initData of a session that the platform opened at StartTime.
SessionInitData ==
    [present |-> TRUE, signed_with |-> BOT_TOKEN, auth_date |-> StartTime \div 1000]

\* What a client can send as initData: nothing, a session that was opened
\* InitDataExpiry before StartTime, data without auth_date, forged data.
ClientInitData ==
    {NoInitData,
     SessionInitData,
     [SessionInitData EXCEPT !.auth_date = (StartTime - InitDataExpiry) \div 1000],
     [SessionInitData EXCEPT !.auth_date = NULL],
     [SessionInitData EXCEPT !.signed_with = "another key"]}

ValidateInitData(initData, t) ==
    /\ initData.present /\ BOT_TOKEN # ""
    /\ initData.signed_with = BOT_TOKEN
    /\ initData.auth_date # NULL
    /\ ~(t - initData.auth_date * 1000 > InitDataExpiry)

NewReq ==
    [type |-> "none", pc |-> "start", user_id |-> 0, action_id |-> NoActionId,
     initData |-> SessionInitData,   \* initData of the request body
     action_type |-> "none",   \* action_type of a generateActionId body
     referrer_id |-> 0,        \* referrer_id of a commission body
     ref_by |-> NULL,          \* ref_by of a register body
     task_id |-> 0, amount |-> 0, status |-> 0,
     record |-> NoRecord,      \* temp_actions row read by validateAndUseActionId
     user |-> NoUser,          \* users row read by the handler
     task |-> NoTask,          \* tasks_new row read by the handler
     payload |-> <<>>,         \* updatePayload of the coming PATCH on users
     reward |-> 0,             \* reward of the request, in coins
     prize_index |-> 0,        \* sector index returned by spinResult
     remainingTime |-> 0,      \* remainingTime of a failed rate check
     reset_now |-> 0,          \* Date.now() at the entry of resetDailyLimitsIfExpired
     checked_at |-> NULL,      \* Date.now() of the expiry decision on the token
     removed |-> FALSE,        \* history: the DELETE of this request removed the token row
     rate_read_failed |-> FALSE,   \* history: the GET of checkRateLimit threw
     granted |-> FALSE]        \* history: the reward/debit PATCH of this request was applied

\* ------------------------------------------------------------------------
\* Store operations (supabaseFetch, src/api/index.js:56-98)
\* ------------------------------------------------------------------------
\* GET users?id=eq.<id>: the matching row, or NoUser for an empty result.
GetUser(id) == IF id \in UserIds /\ users[id].present THEN users[id] ELSE NoUser

\* PATCH users?id=eq.<id> with a payload: only the payload's columns change,
\* and no row is touched when the id matches none.
PatchUser(tbl, id, payload) ==
    IF id \in UserIds /\ tbl[id].present
    THEN [tbl EXCEPT ![id] =
            [f \in DOMAIN tbl[id] |->
                IF f \in DOMAIN payload THEN payload[f] ELSE tbl[id][f]]]
    ELSE tbl

\* Faulty variant: the lookup leaves out the action_type filter.
MatchingActionsAnyType(rows, userId, actionId, actionType) ==
    {a \in rows : a.user_id = userId /\ a.action_id = actionId}

\* GET temp_actions?user_id=eq..&action_id=eq..&action_type=eq..
MatchingActions(rows, userId, actionId, actionType) ==
    {a \in rows : a.user_id = userId /\ a.action_id = actionId
                  /\ a.action_type = actionType}

\* records[0] of a non-empty result (token values are unique, so there is one).
FirstRecord(rows) == CHOOSE a \in rows : \A b \in rows : a.id <= b.id

\* Faulty variant: the consumed row is left in the table.
DeleteNothing(rows, id) == rows

\* DELETE temp_actions?id=eq.<id>
DeleteActionById(rows, id) == {a \in rows : a.id # id}

\* Faulty variant: a token that is exactly ACTION_ID_EXPIRY_MS old is expired.
IsExpiredInclusive(t, createdAt) == t - createdAt >= ACTION_ID_EXPIRY_MS

\* Date.now() - recordTime > ACTION_ID_EXPIRY_MS
IsExpired(t, createdAt) == t - createdAt > ACTION_ID_EXPIRY_MS

\* ------------------------------------------------------------------------
\* checkRateLimit: the decision taken on the last_activity that was read.
\* ------------------------------------------------------------------------
\* Faulty variant: a request exactly one interval after the last one is refused.
CheckRateLimitInclusive(lastActivity, t) ==
    LET last == IF lastActivity # NULL THEN lastActivity ELSE 0
        timeElapsed == t - last
    IN  IF timeElapsed <= MIN_TIME_BETWEEN_ACTIONS_MS
        THEN [ok |-> FALSE, remainingTime |-> MIN_TIME_BETWEEN_ACTIONS_MS - timeElapsed]
        ELSE [ok |-> TRUE, remainingTime |-> 0]

CheckRateLimit(lastActivity, t) ==
    LET last == IF lastActivity # NULL THEN lastActivity ELSE 0
        timeElapsed == t - last
    IN  IF timeElapsed < MIN_TIME_BETWEEN_ACTIONS_MS
        THEN [ok |-> FALSE, remainingTime |-> MIN_TIME_BETWEEN_ACTIONS_MS - timeElapsed]
        ELSE [ok |-> TRUE, remainingTime |-> 0]

\* The rate check of a handler on user id: one GET of last_activity.
RateLimitResult(id) ==
    IF GetUser(id).present THEN CheckRateLimit(GetUser(id).last_activity, now)
    ELSE [ok |-> TRUE, remainingTime |-> 0]

\* ------------------------------------------------------------------------
\* Request bookkeeping
\* ------------------------------------------------------------------------
\* sendError / sendSuccess with nothing left to do: the locals of the
\* handler are gone.
Respond(req, code) ==
    [req EXCEPT !.pc = "done", !.status = code, !.record = NoRecord,
                !.user = NoUser, !.task = NoTask, !.payload = <<>>,
                !.reset_now = NULL, !.checked_at = NULL]

\* The reward or debit PATCH of req was applied: it is the last grant of its user.
RecordGrant(req) ==
    last_grant' = [last_grant EXCEPT ![req.user_id] =
                      [at |-> req.payload.last_activity, action_id |-> req.action_id]]

\* The requests, as a set (two requests in the same state are one element).
Requests == BagToSet(reqs)

\* Request req takes a step and becomes new.
SetReq(req, new) == reqs' = (reqs (-) SetToBag({req})) (+) SetToBag({new})

\* ------------------------------------------------------------------------
\* Initial states: a store the program can have produced.
\* ------------------------------------------------------------------------
\* The timestamps of the initial store lie on the boundary of their time
\* windows: a window that is still open at StartTime is closed at the next
\* instant of the clock.  User 1 (referred by user 2) is a user that never
\* acted, a banned one, one that is one ad and one spin below the caps, or one
\* that reached both caps RESET_INTERVAL_MS ago, or one millisecond earlier.
\* A user that acted before did so a rate interval ago.  The first token is
\* ACTION_ID_EXPIRY_MS old, the second one is new.
LastSeen == StartTime - MIN_TIME_BETWEEN_ACTIONS_MS

InitProfiles ==
    {[ads |-> 0, adsAt |-> NULL, spins |-> 0, spinsAt |-> NULL,
      banned |-> FALSE, last |-> NULL],
     [ads |-> 0, adsAt |-> NULL, spins |-> 0, spinsAt |-> NULL,
      banned |-> TRUE, last |-> LastSeen],
     [ads |-> DAILY_MAX_ADS - 1, adsAt |-> NULL,
      spins |-> DAILY_MAX_SPINS - 1, spinsAt |-> NULL,
      banned |-> FALSE, last |-> LastSeen],
     [ads |-> DAILY_MAX_ADS, adsAt |-> StartTime - RESET_INTERVAL_MS,
      spins |-> DAILY_MAX_SPINS, spinsAt |-> StartTime - RESET_INTERVAL_MS,
      banned |-> FALSE, last |-> LastSeen],
     [ads |-> DAILY_MAX_ADS, adsAt |-> StartTime - RESET_INTERVAL_MS - 1,
      spins |-> DAILY_MAX_SPINS, spinsAt |-> StartTime - RESET_INTERVAL_MS - 1,
      banned |-> FALSE, last |-> LastSeen]}

InitUser1(c) ==
    [NewUser(2, c.last) EXCEPT
        !.balance = 1500 * Scale, !.is_banned = c.banned,
        !.ads_watched_today = c.ads, !.ads_limit_reached_at = c.adsAt,
        !.spins_today = c.spins, !.spins_limit_reached_at = c.spinsAt]

InitTokens(plan) ==
    {[id |-> i, user_id |-> 1, action_id |-> i, action_type |-> plan[i],
      created_at |-> IF i = 1 THEN StartTime - ACTION_ID_EXPIRY_MS ELSE StartTime]
     : i \in 1..Len(plan)}

NoGrant == [at |-> NULL, action_id |-> NoActionId]

\* The store with user 1 in one of the profiles, holding the tokens of one
\* of the plans, and its referrer, user 2, as one of the rows of referrers.
InitReferred(profiles, plans, referrers) ==
    /\ now = StartTime
    /\ \E c \in profiles, referrer \in referrers :
          users = [u \in UserIds |-> IF u = 1 THEN InitUser1(c) ELSE referrer]
    /\ \E plan \in plans :
          /\ temp_actions = InitTokens(plan)
          /\ issued = [i \in 1..Len(plan) |->
                         <<1, plan[i], IF i = 1 THEN StartTime - ACTION_ID_EXPIRY_MS
                                       ELSE StartTime>>]
    /\ tasks_new = [t \in TaskIds |->
                      [present |-> TRUE, task_reward |-> 50, max_users |-> 2,
                       current_users |-> 1, is_active |-> TRUE]]
    /\ user_tasks_new = <<>>
    /\ withdrawal_history = <<>>
    /\ commission_history = <<>>
    /\ reqs = EmptyBag
    /\ accepted = {}
    /\ last_grant = [u \in UserIds |-> NoGrant]

\* The referrer is a user that acted a rate interval ago.
InitStore(profiles, plans) == InitReferred(profiles, plans, {NewUser(NULL, LastSeen)})

\* Every profile of user 1 with every token plan, user 2 registered; and a
\* fresh user 1 with two ad tokens, user 2 not yet registered.
Init ==
    \/ InitStore(InitProfiles, InitTokenPlans)
    \/ InitReferred({c \in InitProfiles : c.ads = 0 /\ ~c.banned},
                    {<<"watchAd", "watchAd">>}, {NoUser})

\* ------------------------------------------------------------------------
\* The clock
\* ------------------------------------------------------------------------
\* The clock advances to one of the next instants at which a time window of
\* the store can close: a whole number of rate intervals after StartTime, or
\* one millisecond before that.
Instants ==
    {StartTime + ((i + 1) \div 2) * MIN_TIME_BETWEEN_ACTIONS_MS - (i % 2) : i \in 1..MaxTicks}

Tick ==
    /\ \E t \in Instants :
          /\ t > now
          /\ t - now <= MIN_TIME_BETWEEN_ACTIONS_MS
          /\ now' = t
    /\ UNCHANGED <<store, reqs, history>>

\* What a second read of the clock gives in synchronous code that read t
\* before: t again, or a later instant.
LaterReads(t) ==
    {t} \cup {i \in Instants : i > t /\ i - t <= MIN_TIME_BETWEEN_ACTIONS_MS}

\* ------------------------------------------------------------------------
\* module.exports: a request arrives and is routed by its type
\* ------------------------------------------------------------------------
\* The types the router knows, and one it does not.
RouterTypes ==
    {"getUserData", "register", "watchAd", "commission", "preSpin", "spinResult",
     "withdraw", "completeTask", "generateActionId", "getNewTasks", "completeNewTask",
     "unknown"}

\* Faulty variant: getUserData is routed without the check of initData.
StartUnauthenticatedRouted ==
    /\ BagCardinality(reqs) < MaxReq
    /\ \E t \in RouterTypes, initData \in ClientInitData :
          /\ t # "commission" /\ ~ValidateInitData(initData, now)
          /\ reqs' = reqs (+) SetToBag({
                IF t = "getUserData"
                THEN [NewReq EXCEPT !.type = t, !.initData = initData, !.pc = "reset_get",
                                    !.user_id = 1, !.reset_now = now]
                ELSE [Respond(NewReq, 401) EXCEPT !.type = t, !.initData = initData]})
    /\ UNCHANGED <<now, store, history>>

\* A request of a type other than commission arrives whose initData is
\* missing or fails validateInitData: 401, before the check of user_id and
\* before any handler.
StartUnauthenticated ==
    /\ BagCardinality(reqs) < MaxReq
    /\ \E t \in RouterTypes, initData \in ClientInitData :
          /\ t # "commission" /\ ~ValidateInitData(initData, now)
          /\ reqs' = reqs (+) SetToBag({[Respond(NewReq, 401) EXCEPT
                                          !.type = t, !.initData = initData]})
    /\ UNCHANGED <<now, store, history>>

\* parseFloat(amount): zero, below the minimum, the minimum, or not a number.
WithdrawAmounts == {0, 500, 1000, NaN}

\* The action type a client wrongly presents a token of type k to.
WrongType(k) == IF k = "watchAd" THEN "withdraw" ELSE "watchAd"

\* What a client sends as <<action type, user_id, action_id>>: nothing or a
\* made-up value, or a token that was issued, by its owner for its type
\* (possibly once more), by another user, or for another type.
TokenRequestInputs ==
    {<<"watchAd", 1, NoActionId>>, <<"watchAd", 1, BogusActionId>>}
    \cup {<<issued[a][2], issued[a][1], a>> : a \in DOMAIN issued}
    \cup {<<issued[a][2], u, a>> : a \in DOMAIN issued, u \in UserIds}
    \cup {<<WrongType(issued[a][2]), issued[a][1], a>> : a \in DOMAIN issued}

StartTokenRequestUpTo(maxReq) ==
    /\ BagCardinality(reqs) < maxReq
    /\ ValidateInitData(NewReq.initData, now)
    /\ \E in \in TokenRequestInputs :
          LET t == in[1]  u == in[2]  a == in[3] IN
          \E task \in IF t = "completeNewTask" THEN TaskIds ELSE {0},
             amt \in IF t = "withdraw" THEN WithdrawAmounts ELSE {0} :
             reqs' = reqs (+) SetToBag({[NewReq EXCEPT !.type = t, !.pc = "validate", !.user_id = u,
                                       !.action_id = a, !.task_id = task,
                                       !.amount = amt]})
    /\ UNCHANGED <<now, store, history>>

StartTokenRequest == StartTokenRequestUpTo(MaxReq)

\* ------------------------------------------------------------------------
\* handleGenerateActionId
\* ------------------------------------------------------------------------
\* A generateActionId request for a valid action type or for an unknown one.
TokensRequested ==
    LET gen == {r \in Requests : r.type = "generateActionId"}
    IN  BagCardinality([r \in gen |-> reqs[r]])

StartGenerateActionId ==
    /\ BagCardinality(reqs) < MaxReq
    /\ ValidateInitData(NewReq.initData, now)
    /\ TokensRequested < MaxNewTokens
    /\ \E u \in UserIds, t \in ActionTypes \cup {"unknown"} :
          reqs' = reqs (+) SetToBag({
                    IF t \in ActionTypes
                    THEN [NewReq EXCEPT !.type = "generateActionId", !.pc = "fetch_user",
                                        !.user_id = u, !.action_type = t]
                    ELSE [Respond(NewReq, 400) EXCEPT !.type = "generateActionId",
                                                      !.user_id = u, !.action_type = t]})
    /\ UNCHANGED <<now, store, history>>

\* Variant: the token is issued without looking at the ban flag.
GenerateActionIdFetchUserUnbanned(req) ==
    LET user == GetUser(req.user_id)
    IN  /\ req.type = "generateActionId" /\ req.pc = "fetch_user"
        /\ IF ~user.present THEN SetReq(req, Respond(req, 403))
           ELSE SetReq(req, [req EXCEPT !.pc = "insert_action"])
        /\ UNCHANGED <<now, store, history>>

GenerateActionIdFetchUser(req) ==
    LET user == GetUser(req.user_id)
    IN  /\ req.type = "generateActionId" /\ req.pc = "fetch_user"
        /\ IF ~user.present \/ user.is_banned THEN SetReq(req, Respond(req, 403))
           ELSE SetReq(req, [req EXCEPT !.pc = "insert_action"])
        /\ UNCHANGED <<now, store, history>>

\* POST temp_actions: crypto.randomBytes(16) never repeats a value, so the
\* new token is numbered after the ones issued so far; created_at is the
\* time of the insert.
GenerateActionIdInsert(req) ==
    LET actionId == Len(issued) + 1
    IN  /\ req.type = "generateActionId" /\ req.pc = "insert_action"
        /\ temp_actions' = temp_actions \cup
               {[id |-> actionId, user_id |-> req.user_id, action_id |-> actionId,
                 action_type |-> req.action_type, created_at |-> now]}
        /\ issued' = Append(issued, <<req.user_id, req.action_type, now>>)
        /\ SetReq(req, [Respond(req, 200) EXCEPT !.action_id = actionId])
        /\ UNCHANGED <<now, users, tasks_new, user_tasks_new, withdrawal_history,
                       commission_history, history>>

\* ------------------------------------------------------------------------
\* validateAndUseActionId
\* ------------------------------------------------------------------------
\* The lookup of the token row and the expiry decision.
ValidateGet(req) ==
    LET records == MatchingActions(temp_actions, req.user_id, req.action_id, req.type)
    IN  /\ req.pc = "validate"
        /\ IF req.action_id = NoActionId
           THEN SetReq(req, Respond(req, 400))
           ELSE IF records = {}
           THEN SetReq(req, Respond(req, 409))
           ELSE LET record == FirstRecord(records)
                IN  SetReq(req, [req EXCEPT
                        !.pc = "consume", !.checked_at = now,
                        !.record = [id |-> record.id, created_at |-> record.created_at,
                                    expired |-> IsExpired(now, record.created_at)]])
        /\ UNCHANGED <<now, store, history>>

\* Variant: an expired token is refused without deleting its row.
ValidateDeleteAccepted(req) ==
    LET live == \E a \in temp_actions : a.id = req.record.id
    IN  /\ req.pc = "consume"
        /\ IF req.record.expired
           THEN /\ SetReq(req, Respond(req, 408))
                /\ UNCHANGED <<temp_actions, accepted>>
           ELSE /\ temp_actions' = DeleteActionById(temp_actions, req.record.id)
                /\ SetReq(req, [req EXCEPT !.pc = "fetch_user", !.removed = live,
                                            !.record = NoRecord, !.checked_at = NULL])
                /\ accepted' = accepted \cup {<<req.user_id, req.action_id, req.type>>}
        /\ UNCHANGED <<now, users, issued, tasks_new, user_tasks_new,
                       withdrawal_history, commission_history, last_grant>>

\* The DELETE of the row that was read: of an expired token (408) or of a
\* valid one (the request goes on to its handler).
ValidateDelete(req) ==
    LET live == \E a \in temp_actions : a.id = req.record.id
    IN  /\ req.pc = "consume"
        /\ temp_actions' = DeleteActionById(temp_actions, req.record.id)
        /\ IF req.record.expired
           THEN /\ SetReq(req, [Respond(req, 408) EXCEPT !.removed = live])
                /\ UNCHANGED accepted
           ELSE /\ SetReq(req, [req EXCEPT !.pc = "fetch_user", !.removed = live,
                                            !.record = NoRecord, !.checked_at = NULL])
                /\ accepted' = accepted \cup {<<req.user_id, req.action_id, req.type>>}
        /\ UNCHANGED <<now, users, issued, tasks_new, user_tasks_new,
                       withdrawal_history, commission_history, last_grant>>

\* The GET or the DELETE of validateAndUseActionId fails (supabaseFetch
\* throws): its catch answers 500, and the call had no effect on the store.
ValidateStoreCallFails(req) ==
    /\ \/ req.pc = "validate" /\ req.action_id # NoActionId
       \/ req.pc = "consume"
    /\ SetReq(req, Respond(req, 500))
    /\ UNCHANGED <<now, store, history>>

\* ------------------------------------------------------------------------
\* processCommission (fire-and-forget after the reward write)
\* ------------------------------------------------------------------------
\* commissionAmount = sourceReward * REFERRAL_COMMISSION_RATE (NaN for NaN)
CommissionAmount(sourceReward) ==
    IF sourceReward = NaN THEN [c |-> NaN, d |-> 0]
    ELSE Times(sourceReward, REFERRAL_COMMISSION_RATE)

\* commissionAmount < 0.000001 (the rewards are whole numbers of coins)
CommissionTooSmall(sourceReward) == LessThan(CommissionAmount(sourceReward).c, 1)

\* newBalance = users[0].balance + commissionAmount (NaN for NaN)
CommissionBalance(referrer, sourceReward) ==
    IF sourceReward = NaN THEN CommissionAmount(sourceReward)
    ELSE Plus(BalanceOf(referrer), CommissionAmount(sourceReward))

\* The state of a request after its reward write: the success response, and
\* the commission when the user has a referrer.
AfterReward(req) ==
    IF req.user.ref_by # NULL /\ ~CommissionTooSmall(req.reward)
    THEN [req EXCEPT !.status = 200, !.granted = TRUE, !.pc = "commission_get",
                     !.payload = <<>>, !.task = NoTask]
    ELSE [Respond(req, 200) EXCEPT !.granted = TRUE]

\* Faulty variant: the commission goes on when the referrer row is missing.
CommissionGetMissing(req) ==
    LET referrer == GetUser(req.user.ref_by)
    IN  /\ req.pc = "commission_get"
        /\ IF referrer.present /\ referrer.is_banned
           THEN SetReq(req, Respond(req, req.status))
           ELSE SetReq(req, [req EXCEPT
                    !.pc = "commission_patch",
                    !.payload = BalanceColumns(Plus(BalanceOf(referrer),
                                                    CommissionAmount(req.reward)))])
        /\ UNCHANGED <<now, store, history>>

\* Faulty variant: the commission is paid to a banned referrer too.
CommissionGetBanned(req) ==
    LET referrer == GetUser(req.user.ref_by)
    IN  /\ req.pc = "commission_get"
        /\ IF ~referrer.present
           THEN SetReq(req, Respond(req, req.status))
           ELSE SetReq(req, [req EXCEPT
                    !.pc = "commission_patch",
                    !.payload = BalanceColumns(Plus(BalanceOf(referrer),
                                                    CommissionAmount(req.reward)))])
        /\ UNCHANGED <<now, store, history>>

CommissionGet(req) ==
    LET referrer == GetUser(req.user.ref_by)
    IN  /\ req.pc = "commission_get"
        /\ IF ~referrer.present \/ referrer.is_banned
           THEN SetReq(req, Respond(req, req.status))
           ELSE SetReq(req, [req EXCEPT
                    !.pc = "commission_patch",
                    !.payload = BalanceColumns(Plus(BalanceOf(referrer),
                                                    CommissionAmount(req.reward)))])
        /\ UNCHANGED <<now, store, history>>

CommissionPatch(req) ==
    /\ req.pc = "commission_patch"
    /\ users' = PatchUser(users, req.user.ref_by, req.payload)
    /\ SetReq(req, [req EXCEPT !.pc = "commission_post"])
    /\ UNCHANGED <<now, temp_actions, issued, tasks_new, user_tasks_new,
                   withdrawal_history, commission_history, history>>

CommissionPost(req) ==
    /\ req.pc = "commission_post"
    /\ commission_history' = Append(commission_history,
           [referrer_id |-> req.user.ref_by, referee_id |-> req.user_id,
            amount |-> CommissionAmount(req.reward).c,
            amount_ulps |-> CommissionAmount(req.reward).d,
            source_reward |-> req.reward])
    /\ SetReq(req, Respond(req, req.status))
    /\ UNCHANGED <<now, users, temp_actions, issued, tasks_new, user_tasks_new,
                   withdrawal_history, history>>

\* ------------------------------------------------------------------------
\* handleCommission (type "commission": routed without the check of initData)
\* ------------------------------------------------------------------------
\* parseFloat(source_reward) of a commission body: zero, an ad reward, a
\* number of the client's choice, or NaN (no source_reward, or no number).
SourceRewards == {0, REWARD_PER_AD, 1000, NaN}

\* A commission request arrives, with any initData or none: the router does
\* not read the initData of a commission body, and the request keeps none.
\* The amount is computed and checked before the first store call of
\* processCommission.
StartCommission ==
    /\ BagCardinality(reqs) < MaxReq
    /\ \E initData \in ClientInitData, referrer \in UserIds, referee \in UserIds,
          sourceReward \in SourceRewards :
          LET req == [NewReq EXCEPT !.type = "commission", !.initData = NoInitData,
                                    !.referrer_id = referrer, !.user_id = referee,
                                    !.reward = sourceReward]
          IN  reqs' = reqs (+) SetToBag({
                  IF CommissionTooSmall(sourceReward) THEN Respond(req, 500)
                  ELSE [req EXCEPT !.pc = "endpoint_get"]})
    /\ UNCHANGED <<now, store, history>>

\* GET users of the referrer; result.ok is false for a missing or banned one.
HandleCommissionGet(req) ==
    LET referrer == GetUser(req.referrer_id)
    IN  /\ req.type = "commission" /\ req.pc = "endpoint_get"
        /\ IF ~referrer.present \/ referrer.is_banned
           THEN SetReq(req, Respond(req, 500))
           ELSE SetReq(req, [req EXCEPT
                    !.pc = "endpoint_patch",
                    !.payload = BalanceColumns(CommissionBalance(referrer, req.reward))])
        /\ UNCHANGED <<now, store, history>>

HandleCommissionPatch(req) ==
    /\ req.type = "commission" /\ req.pc = "endpoint_patch"
    /\ users' = PatchUser(users, req.referrer_id, req.payload)
    /\ SetReq(req, [req EXCEPT !.pc = "endpoint_post"])
    /\ UNCHANGED <<now, temp_actions, issued, tasks_new, user_tasks_new,
                   withdrawal_history, commission_history, history>>

HandleCommissionPost(req) ==
    /\ req.type = "commission" /\ req.pc = "endpoint_post"
    /\ commission_history' = Append(commission_history,
           [referrer_id |-> req.referrer_id, referee_id |-> req.user_id,
            amount |-> CommissionAmount(req.reward).c,
            amount_ulps |-> CommissionAmount(req.reward).d,
            source_reward |-> req.reward])
    /\ SetReq(req, Respond(req, 200))
    /\ UNCHANGED <<now, users, temp_actions, issued, tasks_new, user_tasks_new,
                   withdrawal_history, history>>

\* Faulty variant: a failure inside the commission fails the reward request.
CommissionFailsSurfaced(req) ==
    /\ req.pc \in {"commission_get", "commission_patch", "commission_post"}
    /\ SetReq(req, Respond(req, 500))
    /\ UNCHANGED <<now, store, history>>

\* The store calls a handler awaits in its own try block, by the position of
\* the request: the GETs, PATCHes and POSTs of the token-carrying handlers,
\* of handleGetUserData (after resetDailyLimitsIfExpired), handleRegister,
\* handleGenerateActionId and handleGetNewTasks, and the three calls of
\* processCommission when handleCommission awaits it.
AwaitsStoreCall(req) ==
    \/ /\ req.type \in ActionTypes
       /\ req.pc \in {"fetch_user", "patch_user", "check_completed", "fetch_task",
                      "patch_task", "insert_completion", "insert_withdrawal"}
    \/ /\ req.type = "getUserData"
       /\ req.pc \in {"fetch_user", "fetch_referrals", "fetch_withdrawals", "touch"}
    \/ req.type = "register" /\ req.pc \in {"fetch_user", "insert_user"}
    \/ req.type = "generateActionId" /\ req.pc \in {"fetch_user", "insert_action"}
    \/ /\ req.type = "getNewTasks"
       /\ req.pc \in {"fetch_user", "fetch_tasks", "fetch_completed"}
    \/ /\ req.type = "commission"
       /\ req.pc \in {"endpoint_get", "endpoint_patch", "endpoint_post"}

\* A store call in the try block of a handler fails (supabaseFetch throws):
\* the catch of the handler answers 500; the call had no effect on the
\* store.  For a request of type commission the catch is the one of
\* processCommission, whose { ok: false } handleCommission answers with 500.
HandlerStoreCallFails(req) ==
    /\ AwaitsStoreCall(req)
    /\ SetReq(req, Respond(req, 500))
    /\ UNCHANGED <<now, store, history>>

\* A store call of processCommission fails (supabaseFetch throws): the catch
\* of processCommission returns { ok: false }, which nobody reads; the call
\* had no effect on the store.
CommissionFails(req) ==
    /\ req.pc \in {"commission_get", "commission_patch", "commission_post"}
    /\ SetReq(req, Respond(req, req.status))
    /\ UNCHANGED <<now, store, history>>

\* ------------------------------------------------------------------------
\* handleWatchAd
\* ------------------------------------------------------------------------
\* Faulty variant: the limit timestamp is never stamped.
WatchAdPayloadUnstamped(user, t, limitTime) ==
    LET newBalance == Plus(BalanceOf(user), Double(REWARD_PER_AD * Scale))
    IN  [balance |-> newBalance.c, balance_ulps |-> newBalance.d,
         ads_watched_today |-> user.ads_watched_today + 1,
         last_activity |-> t]

\* updatePayload of handleWatchAd, built from the row that was read:
\* last_activity is new Date() of l.516 (t), ads_limit_reached_at a second
\* new Date(), of l.521 (limitTime).
WatchAdPayload(user, t, limitTime) ==
    LET newAdsCount == user.ads_watched_today + 1
        newBalance == Plus(BalanceOf(user), Double(REWARD_PER_AD * Scale))
    IN  IF newAdsCount >= DAILY_MAX_ADS
        THEN [balance |-> newBalance.c, balance_ulps |-> newBalance.d,
              ads_watched_today |-> newAdsCount,
              last_activity |-> t, ads_limit_reached_at |-> limitTime]
        ELSE [balance |-> newBalance.c, balance_ulps |-> newBalance.d,
              ads_watched_today |-> newAdsCount,
              last_activity |-> t]

\* Faulty variant: the cap check lets a user at the cap through.
AdsLimitExceeded(user) == user.ads_watched_today > DAILY_MAX_ADS

\* user.ads_watched_today >= DAILY_MAX_ADS
AdsLimitReached(user) == user.ads_watched_today >= DAILY_MAX_ADS

WatchAdFetchUser(req) ==
    LET user == GetUser(req.user_id)
    IN  /\ req.type = "watchAd" /\ req.pc = "fetch_user"
        /\ IF ~user.present THEN SetReq(req, Respond(req, 404))
           ELSE IF user.is_banned THEN SetReq(req, Respond(req, 403))
           ELSE SetReq(req, [req EXCEPT !.pc = "rate", !.user = user])
        /\ UNCHANGED <<now, store, history>>

\* Variant: the rate limit stamp is written before the cap check.
WatchAdRateStampFirst(req) ==
    LET rateLimitResult == RateLimitResult(req.user_id)
    IN  /\ req.type = "watchAd" /\ req.pc = "rate"
        /\ IF ~rateLimitResult.ok
           THEN /\ SetReq(req, [Respond(req, 429) EXCEPT
                                   !.remainingTime = rateLimitResult.remainingTime])
                /\ UNCHANGED users
           ELSE IF AdsLimitReached(req.user)
           THEN /\ SetReq(req, Respond(req, 403))
                /\ users' = PatchUser(users, req.user_id, [last_activity |-> now])
           ELSE /\ SetReq(req, [req EXCEPT !.pc = "patch_user", !.reward = REWARD_PER_AD,
                                           !.payload = WatchAdPayload(req.user, now, now)])
                /\ UNCHANGED users
        /\ UNCHANGED <<now, temp_actions, issued, tasks_new, user_tasks_new,
                       withdrawal_history, commission_history, history>>

\* The instants that the clock read of a limit stamp can give in a step that
\* read the clock at t: the stamp is read only when the new count is at the
\* cap.
LimitStampReads(newCount, cap, t) == IF newCount >= cap THEN LaterReads(t) ELSE {t}

\* The rate check (checkRateLimit: GET of last_activity, Date.now() of
\* l.207), the cap check and updatePayload.  The clock is read again for
\* last_activity (l.516) and, at the cap, once more for the limit stamp
\* (l.521), which can show a later instant; the clock is left at the last
\* instant read.
WatchAdRate(req) ==
    LET rateLimitResult == RateLimitResult(req.user_id)
    IN  /\ req.type = "watchAd" /\ req.pc = "rate"
        /\ IF ~rateLimitResult.ok
           THEN /\ SetReq(req, [Respond(req, 429) EXCEPT
                                   !.remainingTime = rateLimitResult.remainingTime])
                /\ UNCHANGED now
           ELSE IF AdsLimitReached(req.user)
           THEN SetReq(req, Respond(req, 403)) /\ UNCHANGED now
           ELSE \E limitTime \in LimitStampReads(req.user.ads_watched_today + 1,
                                                 DAILY_MAX_ADS, now) :
                  /\ SetReq(req, [req EXCEPT
                         !.pc = "patch_user", !.reward = REWARD_PER_AD,
                         !.payload = WatchAdPayload(req.user, now, limitTime)])
                  /\ now' = limitTime
        /\ UNCHANGED <<store, history>>

\* The GET of last_activity inside checkRateLimit throws: its catch returns
\* { ok: true }, and handleWatchAd goes on to the cap check.
WatchAdRateReadFails(req) ==
    /\ req.type = "watchAd" /\ req.pc = "rate"
    /\ IF AdsLimitReached(req.user)
       THEN /\ SetReq(req, [Respond(req, 403) EXCEPT !.rate_read_failed = TRUE])
            /\ UNCHANGED now
       ELSE \E limitTime \in LimitStampReads(req.user.ads_watched_today + 1,
                                             DAILY_MAX_ADS, now) :
              /\ SetReq(req, [req EXCEPT
                     !.pc = "patch_user", !.reward = REWARD_PER_AD,
                     !.payload = WatchAdPayload(req.user, now, limitTime),
                     !.rate_read_failed = TRUE])
              /\ now' = limitTime
    /\ UNCHANGED <<store, history>>

\* Variant: the PATCH carries an expected-previous-value check; a request
\* whose row changed since it was read is refused.
WatchAdPatchGuarded(req) ==
    /\ req.type = "watchAd" /\ req.pc = "patch_user"
    /\ IF /\ BalanceOf(GetUser(req.user_id)) = BalanceOf(req.user)
          /\ GetUser(req.user_id).ads_watched_today = req.user.ads_watched_today
       THEN /\ users' = PatchUser(users, req.user_id, req.payload)
            /\ SetReq(req, AfterReward(req))
            /\ RecordGrant(req)
       ELSE /\ SetReq(req, Respond(req, 409))
            /\ UNCHANGED <<users, last_grant>>
    /\ UNCHANGED <<now, temp_actions, issued, tasks_new, user_tasks_new,
                   withdrawal_history, commission_history, accepted>>

WatchAdPatch(req) ==
    /\ req.type = "watchAd" /\ req.pc = "patch_user"
    /\ users' = PatchUser(users, req.user_id, req.payload)
    /\ SetReq(req, AfterReward(req))
    /\ UNCHANGED <<now, temp_actions, issued, tasks_new, user_tasks_new,
                   withdrawal_history, commission_history, accepted>>
    /\ RecordGrant(req)

\* ------------------------------------------------------------------------
\* handlePreSpin
\* ------------------------------------------------------------------------
\* Faulty variant: the cap check lets a user at the cap through.
SpinsLimitExceeded(user) == user.spins_today > DAILY_MAX_SPINS

\* user.spins_today >= DAILY_MAX_SPINS
SpinsLimitReached(user) == user.spins_today >= DAILY_MAX_SPINS

PreSpinFetchUser(req) ==
    LET user == GetUser(req.user_id)
    IN  /\ req.type = "preSpin" /\ req.pc = "fetch_user"
        /\ IF ~user.present THEN SetReq(req, Respond(req, 404))
           ELSE IF user.is_banned THEN SetReq(req, Respond(req, 403))
           ELSE IF SpinsLimitReached(user) THEN SetReq(req, Respond(req, 403))
           ELSE SetReq(req, Respond(req, 200))
        /\ UNCHANGED <<now, store, history>>

\* ------------------------------------------------------------------------
\* handleSpinResult
\* ------------------------------------------------------------------------
\* Faulty variant: the last sector of the wheel is never drawn.
PrizeIndicesShort == 0..(Len(SPIN_SECTORS) - 2)

\* calculateRandomSpinPrize: the indices Math.floor(Math.random() * 5) can give.
PrizeIndices == 0..(Len(SPIN_SECTORS) - 1)

\* SPIN_SECTORS[randomIndex] (JavaScript arrays start at 0)
SpinPrize(prizeIndex) == SPIN_SECTORS[prizeIndex + 1]

\* updatePayload of handleSpinResult, built from the row that was read:
\* last_activity is new Date() of l.647 (t), spins_limit_reached_at a second
\* new Date(), of l.652 (limitTime).
SpinPayload(user, prize, t, limitTime) ==
    LET newSpinsCount == user.spins_today + 1
        newBalance == Plus(BalanceOf(user), Double(prize * Scale))
    IN  IF newSpinsCount >= DAILY_MAX_SPINS
        THEN [balance |-> newBalance.c, balance_ulps |-> newBalance.d,
              spins_today |-> newSpinsCount,
              last_activity |-> t, spins_limit_reached_at |-> limitTime]
        ELSE [balance |-> newBalance.c, balance_ulps |-> newBalance.d,
              spins_today |-> newSpinsCount,
              last_activity |-> t]

SpinResultFetchUser(req) ==
    LET user == GetUser(req.user_id)
    IN  /\ req.type = "spinResult" /\ req.pc = "fetch_user"
        /\ IF ~user.present THEN SetReq(req, Respond(req, 404))
           ELSE IF user.is_banned THEN SetReq(req, Respond(req, 403))
           ELSE SetReq(req, [req EXCEPT !.pc = "rate", !.user = user])
        /\ UNCHANGED <<now, store, history>>

\* The rate check (Date.now() of l.207), the cap check, the draw of the
\* prize, whose sector index is one of indices, and updatePayload.  The clock
\* is read again for last_activity (l.647) and, at the cap, once more for the
\* limit stamp (l.652), which can show a later instant; the clock is left at
\* the last instant read.
SpinResultRate(req, indices) ==
    LET rateLimitResult == RateLimitResult(req.user_id)
    IN  /\ req.type = "spinResult" /\ req.pc = "rate"
        /\ IF ~rateLimitResult.ok
           THEN /\ SetReq(req, [Respond(req, 429) EXCEPT
                                   !.remainingTime = rateLimitResult.remainingTime])
                /\ UNCHANGED now
           ELSE IF SpinsLimitReached(req.user)
           THEN SetReq(req, Respond(req, 403)) /\ UNCHANGED now
           ELSE \E prizeIndex \in indices,
                   limitTime \in LimitStampReads(req.user.spins_today + 1,
                                                 DAILY_MAX_SPINS, now) :
                  /\ SetReq(req, [req EXCEPT
                         !.pc = "patch_user", !.reward = SpinPrize(prizeIndex),
                         !.prize_index = prizeIndex,
                         !.payload = SpinPayload(req.user, SpinPrize(prizeIndex),
                                                 now, limitTime)])
                  /\ now' = limitTime
        /\ UNCHANGED <<store, history>>

\* The GET of last_activity inside checkRateLimit throws: its catch returns
\* { ok: true }, and handleSpinResult goes on to the cap check and the draw.
SpinResultRateReadFails(req, indices) ==
    /\ req.type = "spinResult" /\ req.pc = "rate"
    /\ IF SpinsLimitReached(req.user)
       THEN /\ SetReq(req, [Respond(req, 403) EXCEPT !.rate_read_failed = TRUE])
            /\ UNCHANGED now
       ELSE \E prizeIndex \in indices,
               limitTime \in LimitStampReads(req.user.spins_today + 1,
                                             DAILY_MAX_SPINS, now) :
              /\ SetReq(req, [req EXCEPT
                     !.pc = "patch_user", !.reward = SpinPrize(prizeIndex),
                     !.prize_index = prizeIndex,
                     !.payload = SpinPayload(req.user, SpinPrize(prizeIndex),
                                             now, limitTime),
                     !.rate_read_failed = TRUE])
              /\ now' = limitTime
    /\ UNCHANGED <<store, history>>

SpinResultPatch(req) ==
    /\ req.type = "spinResult" /\ req.pc = "patch_user"
    /\ users' = PatchUser(users, req.user_id, req.payload)
    /\ SetReq(req, AfterReward(req))
    /\ UNCHANGED <<now, temp_actions, issued, tasks_new, user_tasks_new,
                   withdrawal_history, commission_history, accepted>>
    /\ RecordGrant(req)

\* ------------------------------------------------------------------------
\* handleCompleteTask (the channel-join task)
\* ------------------------------------------------------------------------
CompleteTaskPayload(user, t) ==
    LET newBalance == Plus(BalanceOf(user), Double(TASK_REWARD * Scale))
    IN  [balance |-> newBalance.c, balance_ulps |-> newBalance.d,
         task_completed |-> TRUE, last_activity |-> t]

CompleteTaskFetchUser(req) ==
    LET user == GetUser(req.user_id)
    IN  /\ req.type = "completeTask" /\ req.pc = "fetch_user"
        /\ IF ~user.present THEN SetReq(req, Respond(req, 404))
           ELSE IF user.is_banned THEN SetReq(req, Respond(req, 403))
           ELSE IF user.task_completed THEN SetReq(req, Respond(req, 403))
           ELSE SetReq(req, [req EXCEPT !.pc = "rate", !.user = user])
        /\ UNCHANGED <<now, store, history>>

CompleteTaskRate(req) ==
    LET rateLimitResult == RateLimitResult(req.user_id)
    IN  /\ req.type = "completeTask" /\ req.pc = "rate"
        /\ IF ~rateLimitResult.ok
           THEN SetReq(req, [Respond(req, 429) EXCEPT
                              !.remainingTime = rateLimitResult.remainingTime])
           ELSE SetReq(req, [req EXCEPT !.pc = "membership"])
        /\ UNCHANGED <<now, store, history>>

\* The GET of last_activity inside checkRateLimit throws: its catch returns
\* { ok: true }, and handleCompleteTask goes on to the membership check.
CompleteTaskRateReadFails(req) ==
    /\ req.type = "completeTask" /\ req.pc = "rate"
    /\ SetReq(req, [req EXCEPT !.pc = "membership", !.rate_read_failed = TRUE])
    /\ UNCHANGED <<now, store, history>>

\* checkChannelMembership: the answer of the Telegram API, whatever it is.
CompleteTaskMembership(req) ==
    /\ req.type = "completeTask" /\ req.pc = "membership"
    /\ \E isMember \in BOOLEAN :
          IF ~isMember THEN SetReq(req, Respond(req, 400))
          ELSE SetReq(req, [req EXCEPT !.pc = "patch_user", !.reward = TASK_REWARD,
                                       !.payload = CompleteTaskPayload(req.user, now)])
    /\ UNCHANGED <<now, store, history>>

CompleteTaskPatch(req) ==
    /\ req.type = "completeTask" /\ req.pc = "patch_user"
    /\ users' = PatchUser(users, req.user_id, req.payload)
    /\ SetReq(req, AfterReward(req))
    /\ UNCHANGED <<now, temp_actions, issued, tasks_new, user_tasks_new,
                   withdrawal_history, commission_history, accepted>>
    /\ RecordGrant(req)

\* ------------------------------------------------------------------------
\* handleCompleteNewTask
\* ------------------------------------------------------------------------
\* GET tasks_new?id=eq.<taskId>
GetTask(taskId) == IF taskId \in TaskIds /\ tasks_new[taskId].present
                   THEN tasks_new[taskId] ELSE NoTask

\* GET user_tasks_new?user_id=eq..&task_id=eq..
Completions(rows, userId, taskId) ==
    {i \in DOMAIN rows : rows[i].user_id = userId /\ rows[i].task_id = taskId}

CompleteNewTaskFetchUser(req) ==
    LET user == GetUser(req.user_id)
    IN  /\ req.type = "completeNewTask" /\ req.pc = "fetch_user"
        /\ IF ~user.present THEN SetReq(req, Respond(req, 404))
           ELSE IF user.is_banned THEN SetReq(req, Respond(req, 403))
           ELSE SetReq(req, [req EXCEPT !.pc = "check_completed", !.user = user])
        /\ UNCHANGED <<now, store, history>>

CompleteNewTaskCheckCompleted(req) ==
    /\ req.type = "completeNewTask" /\ req.pc = "check_completed"
    /\ IF Completions(user_tasks_new, req.user_id, req.task_id) # {}
       THEN SetReq(req, Respond(req, 403))
       ELSE SetReq(req, [req EXCEPT !.pc = "fetch_task"])
    /\ UNCHANGED <<now, store, history>>

\* Faulty variant: the capacity check is missing.
CompleteNewTaskFetchTaskUnbounded(req) ==
    LET task == GetTask(req.task_id)
    IN  /\ req.type = "completeNewTask" /\ req.pc = "fetch_task"
        /\ IF ~task.present THEN SetReq(req, Respond(req, 404))
           ELSE IF ~task.is_active THEN SetReq(req, Respond(req, 403))
           ELSE SetReq(req, [req EXCEPT !.pc = "rate", !.task = task])
        /\ UNCHANGED <<now, store, history>>

CompleteNewTaskFetchTask(req) ==
    LET task == GetTask(req.task_id)
    IN  /\ req.type = "completeNewTask" /\ req.pc = "fetch_task"
        /\ IF ~task.present THEN SetReq(req, Respond(req, 404))
           ELSE IF ~task.is_active THEN SetReq(req, Respond(req, 403))
           ELSE IF task.current_users >= task.max_users
           THEN SetReq(req, Respond(req, 403))
           ELSE SetReq(req, [req EXCEPT !.pc = "rate", !.task = task])
        /\ UNCHANGED <<now, store, history>>

CompleteNewTaskRate(req) ==
    LET rateLimitResult == RateLimitResult(req.user_id)
    IN  /\ req.type = "completeNewTask" /\ req.pc = "rate"
        /\ IF ~rateLimitResult.ok
           THEN SetReq(req, [Respond(req, 429) EXCEPT
                              !.remainingTime = rateLimitResult.remainingTime])
           ELSE SetReq(req, [req EXCEPT !.pc = "patch_task",
                                        !.reward = req.task.task_reward])
        /\ UNCHANGED <<now, store, history>>

\* The GET of last_activity inside checkRateLimit throws: its catch returns
\* { ok: true }, and handleCompleteNewTask goes on to its writes.
CompleteNewTaskRateReadFails(req) ==
    /\ req.type = "completeNewTask" /\ req.pc = "rate"
    /\ SetReq(req, [req EXCEPT !.pc = "patch_task", !.reward = req.task.task_reward,
                               !.rate_read_failed = TRUE])
    /\ UNCHANGED <<now, store, history>>

\* Faulty variant: the counter is incremented from the stored value, not
\* from the value the request checked.
CompleteNewTaskPatchTaskStored(req) ==
    /\ req.type = "completeNewTask" /\ req.pc = "patch_task"
    /\ tasks_new' = IF GetTask(req.task_id).present
                    THEN [tasks_new EXCEPT ![req.task_id].current_users = @ + 1]
                    ELSE tasks_new
    /\ SetReq(req, [req EXCEPT !.pc = "insert_completion"])
    /\ UNCHANGED <<now, users, temp_actions, issued, user_tasks_new,
                   withdrawal_history, commission_history, history>>

\* PATCH tasks_new: current_users = task.current_users + 1
CompleteNewTaskPatchTask(req) ==
    /\ req.type = "completeNewTask" /\ req.pc = "patch_task"
    /\ tasks_new' = IF GetTask(req.task_id).present
                    THEN [tasks_new EXCEPT ![req.task_id].current_users =
                                               req.task.current_users + 1]
                    ELSE tasks_new
    /\ SetReq(req, [req EXCEPT !.pc = "insert_completion"])
    /\ UNCHANGED <<now, users, temp_actions, issued, user_tasks_new,
                   withdrawal_history, commission_history, history>>

\* POST user_tasks_new, then the payload of the PATCH on users.
CompleteNewTaskInsert(req) ==
    /\ req.type = "completeNewTask" /\ req.pc = "insert_completion"
    /\ user_tasks_new' = Append(user_tasks_new,
                                [user_id |-> req.user_id, task_id |-> req.task_id])
    /\ SetReq(req, [req EXCEPT
           !.pc = "patch_user",
           !.payload =
               LET newBalance == Plus(BalanceOf(req.user), Double(req.reward * Scale))
               IN  [balance |-> newBalance.c, balance_ulps |-> newBalance.d,
                    last_activity |-> now]])
    /\ UNCHANGED <<now, users, temp_actions, issued, tasks_new,
                   withdrawal_history, commission_history, history>>

CompleteNewTaskPatchUser(req) ==
    /\ req.type = "completeNewTask" /\ req.pc = "patch_user"
    /\ users' = PatchUser(users, req.user_id, req.payload)
    /\ SetReq(req, AfterReward(req))
    /\ UNCHANGED <<now, temp_actions, issued, tasks_new, user_tasks_new,
                   withdrawal_history, commission_history, accepted>>
    /\ RecordGrant(req)

\* ------------------------------------------------------------------------
\* handleWithdraw
\* ------------------------------------------------------------------------
WithdrawFetchUser(req) ==
    LET user == GetUser(req.user_id)
    IN  /\ req.type = "withdraw" /\ req.pc = "fetch_user"
        /\ IF ~user.present THEN SetReq(req, Respond(req, 404))
           ELSE IF user.is_banned THEN SetReq(req, Respond(req, 403))
           ELSE SetReq(req, [req EXCEPT !.pc = "rate", !.user = user])
        /\ UNCHANGED <<now, store, history>>

\* user.balance < withdrawAmount
BalanceBelow(user, withdrawAmount) ==
    withdrawAmount # NaN /\ Below(BalanceOf(user), Double(withdrawAmount * Scale))

\* newBalance = user.balance - withdrawAmount, and the payload of the PATCH
WithdrawPayload(user, withdrawAmount, t) ==
    LET newBalance == Difference(BalanceOf(user), Double(withdrawAmount * Scale))
    IN  IF withdrawAmount = NaN
        THEN [balance |-> NaN, balance_ulps |-> 0, last_activity |-> t]
        ELSE [balance |-> newBalance.c, balance_ulps |-> newBalance.d,
              last_activity |-> t]

\* Faulty variant: the check of the minimum amount is missing.
WithdrawRateNoFloor(req) ==
    LET rateLimitResult == RateLimitResult(req.user_id)
        withdrawAmount == req.amount
    IN  /\ req.type = "withdraw" /\ req.pc = "rate"
        /\ IF ~rateLimitResult.ok
           THEN SetReq(req, [Respond(req, 429) EXCEPT
                              !.remainingTime = rateLimitResult.remainingTime])
           ELSE IF AtMost(withdrawAmount, 0) THEN SetReq(req, Respond(req, 400))
           ELSE IF BalanceBelow(req.user, withdrawAmount)
           THEN SetReq(req, Respond(req, 400))
           ELSE SetReq(req, [req EXCEPT
                    !.pc = "patch_user",
                    !.payload = WithdrawPayload(req.user, withdrawAmount, now)])
        /\ UNCHANGED <<now, store, history>>

\* The rate check, then the checks on the amount (in coins) and the balance.
WithdrawRate(req) ==
    LET rateLimitResult == RateLimitResult(req.user_id)
        withdrawAmount == req.amount
    IN  /\ req.type = "withdraw" /\ req.pc = "rate"
        /\ IF ~rateLimitResult.ok
           THEN SetReq(req, [Respond(req, 429) EXCEPT
                              !.remainingTime = rateLimitResult.remainingTime])
           ELSE IF AtMost(withdrawAmount, 0) THEN SetReq(req, Respond(req, 400))
           ELSE IF LessThan(withdrawAmount, MIN_WITHDRAW)
           THEN SetReq(req, Respond(req, 400))
           ELSE IF BalanceBelow(req.user, withdrawAmount)
           THEN SetReq(req, Respond(req, 400))
           ELSE SetReq(req, [req EXCEPT
                    !.pc = "patch_user",
                    !.payload = WithdrawPayload(req.user, withdrawAmount, now)])
        /\ UNCHANGED <<now, store, history>>

\* The GET of last_activity inside checkRateLimit throws: its catch returns
\* { ok: true }, and handleWithdraw goes on to the checks on the amount.
WithdrawRateReadFails(req) ==
    LET withdrawAmount == req.amount
        failed == [req EXCEPT !.rate_read_failed = TRUE]
    IN  /\ req.type = "withdraw" /\ req.pc = "rate"
        /\ IF AtMost(withdrawAmount, 0) THEN SetReq(req, Respond(failed, 400))
           ELSE IF LessThan(withdrawAmount, MIN_WITHDRAW)
           THEN SetReq(req, Respond(failed, 400))
           ELSE IF BalanceBelow(req.user, withdrawAmount)
           THEN SetReq(req, Respond(failed, 400))
           ELSE SetReq(req, [failed EXCEPT
                    !.pc = "patch_user",
                    !.payload = WithdrawPayload(req.user, withdrawAmount, now)])
        /\ UNCHANGED <<now, store, history>>

WithdrawPatch(req) ==
    /\ req.type = "withdraw" /\ req.pc = "patch_user"
    /\ users' = PatchUser(users, req.user_id, req.payload)
    /\ SetReq(req, [req EXCEPT !.pc = "insert_withdrawal", !.granted = TRUE])
    /\ UNCHANGED <<now, temp_actions, issued, tasks_new, user_tasks_new,
                   withdrawal_history, commission_history, accepted>>
    /\ RecordGrant(req)

\* Variant: the debit is taken back when the insert fails.
WithdrawInsertFailsCompensated(req) ==
    /\ req.type = "withdraw" /\ req.pc = "insert_withdrawal"
    /\ users' = PatchUser(users, req.user_id, BalanceColumns(BalanceOf(req.user)))
    /\ SetReq(req, Respond(req, 500))
    /\ UNCHANGED <<now, temp_actions, issued, tasks_new, user_tasks_new,
                   withdrawal_history, commission_history, history>>

\* POST withdrawal_history fails (supabaseFetch throws): the catch of
\* handleWithdraw answers 500; nothing is written.
WithdrawInsertFails(req) ==
    /\ req.type = "withdraw" /\ req.pc = "insert_withdrawal"
    /\ SetReq(req, Respond(req, 500))
    /\ UNCHANGED <<now, store, history>>

WithdrawInsert(req) ==
    /\ req.type = "withdraw" /\ req.pc = "insert_withdrawal"
    /\ withdrawal_history' = Append(withdrawal_history,
           [user_id |-> req.user_id, amount |-> req.amount, status |-> "pending"])
    /\ SetReq(req, Respond(req, 200))
    /\ UNCHANGED <<now, users, temp_actions, issued, tasks_new, user_tasks_new,
                   commission_history, history>>

\* ------------------------------------------------------------------------
\* resetDailyLimitsIfExpired and handleGetUserData
\* ------------------------------------------------------------------------
\* The ads counter is reset: its limit time is set, the counter is at the
\* cap and more than RESET_INTERVAL_MS passed since.
AdsResetDue(user, t) ==
    /\ user.ads_limit_reached_at # NULL
    /\ user.ads_watched_today >= DAILY_MAX_ADS
    /\ t - user.ads_limit_reached_at > RESET_INTERVAL_MS

SpinsResetDue(user, t) ==
    /\ user.spins_limit_reached_at # NULL
    /\ user.spins_today >= DAILY_MAX_SPINS
    /\ t - user.spins_limit_reached_at > RESET_INTERVAL_MS

\* Faulty variant: when one counter is due, both are reset.
ResetPayloadBoth(user, t) ==
    IF AdsResetDue(user, t) \/ SpinsResetDue(user, t)
    THEN [ads_watched_today |-> 0, ads_limit_reached_at |-> NULL,
          spins_today |-> 0, spins_limit_reached_at |-> NULL]
    ELSE <<>>

\* updatePayload of resetDailyLimitsIfExpired
ResetPayload(user, t) ==
    IF AdsResetDue(user, t) /\ SpinsResetDue(user, t)
    THEN [ads_watched_today |-> 0, ads_limit_reached_at |-> NULL,
          spins_today |-> 0, spins_limit_reached_at |-> NULL]
    ELSE IF AdsResetDue(user, t)
    THEN [ads_watched_today |-> 0, ads_limit_reached_at |-> NULL]
    ELSE IF SpinsResetDue(user, t)
    THEN [spins_today |-> 0, spins_limit_reached_at |-> NULL]
    ELSE <<>>

\* A getUserData request arrives; resetDailyLimitsIfExpired reads the clock
\* before its first store call.
StartGetUserData ==
    /\ BagCardinality(reqs) < MaxReq
    /\ ValidateInitData(NewReq.initData, now)
    /\ \E u \in UserIds :
          reqs' = reqs (+) SetToBag({[NewReq EXCEPT !.type = "getUserData",
                                                     !.pc = "reset_get",
                                                     !.user_id = u,
                                                     !.reset_now = now]})
    /\ UNCHANGED <<now, store, history>>

ResetGet(req) ==
    LET user == GetUser(req.user_id)
        updatePayload == ResetPayload(user, req.reset_now)
    IN  /\ req.pc = "reset_get"
        /\ IF ~user.present \/ updatePayload = <<>>
           THEN SetReq(req, [req EXCEPT !.pc = "fetch_user", !.reset_now = NULL])
           ELSE SetReq(req, [req EXCEPT !.pc = "reset_patch", !.reset_now = NULL,
                                        !.payload = updatePayload])
        /\ UNCHANGED <<now, store, history>>

ResetPatch(req) ==
    /\ req.pc = "reset_patch"
    /\ users' = PatchUser(users, req.user_id, req.payload)
    /\ SetReq(req, [req EXCEPT !.pc = "fetch_user", !.payload = <<>>,
                                 !.reset_now = NULL])
    /\ UNCHANGED <<now, temp_actions, issued, tasks_new, user_tasks_new,
                   withdrawal_history, commission_history, history>>

\* The GET or the PATCH of resetDailyLimitsIfExpired fails (supabaseFetch
\* throws): its catch logs the error, nothing is written, and
\* handleGetUserData goes on with its own GET.
ResetStoreCallFails(req) ==
    /\ req.pc \in {"reset_get", "reset_patch"}
    /\ SetReq(req, [req EXCEPT !.pc = "fetch_user", !.payload = <<>>,
                                 !.reset_now = NULL])
    /\ UNCHANGED <<now, store, history>>

\* GET users: the row of the user.
GetUserDataFetch(req) ==
    LET user == GetUser(req.user_id)
    IN  /\ req.type = "getUserData" /\ req.pc = "fetch_user"
        /\ IF ~user.present THEN SetReq(req, Respond(req, 404))
           ELSE SetReq(req, [req EXCEPT !.pc = "fetch_referrals"])
        /\ UNCHANGED <<now, store, history>>

\* GET users?ref_by=eq.<id>: the referrals are counted.
GetUserDataReferrals(req) ==
    /\ req.type = "getUserData" /\ req.pc = "fetch_referrals"
    /\ SetReq(req, [req EXCEPT !.pc = "fetch_withdrawals"])
    /\ UNCHANGED <<now, store, history>>

\* GET withdrawal_history; the clock is read for the coming PATCH.
GetUserDataHistory(req) ==
    /\ req.type = "getUserData" /\ req.pc = "fetch_withdrawals"
    /\ SetReq(req, [req EXCEPT !.pc = "touch", !.payload = [last_activity |-> now]])
    /\ UNCHANGED <<now, store, history>>

\* PATCH users: last_activity
GetUserDataTouch(req) ==
    /\ req.type = "getUserData" /\ req.pc = "touch"
    /\ users' = PatchUser(users, req.user_id, req.payload)
    /\ SetReq(req, Respond(req, 200))
    /\ UNCHANGED <<now, temp_actions, issued, tasks_new, user_tasks_new,
                   withdrawal_history, commission_history, history>>

\* ------------------------------------------------------------------------
\* handleRegister
\* ------------------------------------------------------------------------
\* ref_by of a register body: absent, or the id of a user.
RefByValues == {NULL} \cup UserIds

StartRegister ==
    /\ BagCardinality(reqs) < MaxReq
    /\ ValidateInitData(NewReq.initData, now)
    /\ \E u \in UserIds, refBy \in RefByValues :
          reqs' = reqs (+) SetToBag({[NewReq EXCEPT !.type = "register",
                                                     !.pc = "fetch_user",
                                                     !.user_id = u,
                                                     !.ref_by = refBy]})
    /\ UNCHANGED <<now, store, history>>

\* GET users: id, is_banned; newUser is built when no row came back.
RegisterFetchUser(req) ==
    LET user == GetUser(req.user_id)
    IN  /\ req.type = "register" /\ req.pc = "fetch_user"
        /\ IF ~user.present
           THEN SetReq(req, [req EXCEPT !.pc = "insert_user",
                                        !.payload = NewUser(req.ref_by, now)])
           ELSE IF user.is_banned THEN SetReq(req, Respond(req, 403))
           ELSE SetReq(req, Respond(req, 200))
        /\ UNCHANGED <<now, store, history>>

\* POST users: newUser. The insert of an id that was registered meanwhile is
\* refused by the primary key of the table, and the catch answers 500.
RegisterInsert(req) ==
    /\ req.type = "register" /\ req.pc = "insert_user"
    /\ IF users[req.user_id].present
       THEN /\ SetReq(req, Respond(req, 500))
            /\ UNCHANGED users
       ELSE /\ users' = [users EXCEPT ![req.user_id] = req.payload]
            /\ SetReq(req, Respond(req, 200))
    /\ UNCHANGED <<now, temp_actions, issued, tasks_new, user_tasks_new,
                   withdrawal_history, commission_history, history>>

\* ------------------------------------------------------------------------
\* handleGetNewTasks
\* ------------------------------------------------------------------------
StartGetNewTasks ==
    /\ BagCardinality(reqs) < MaxReq
    /\ ValidateInitData(NewReq.initData, now)
    /\ \E u \in UserIds :
          reqs' = reqs (+) SetToBag({[NewReq EXCEPT !.type = "getNewTasks",
                                                     !.pc = "fetch_user",
                                                     !.user_id = u]})
    /\ UNCHANGED <<now, store, history>>

\* GET users: is_banned
GetNewTasksFetchUser(req) ==
    LET user == GetUser(req.user_id)
    IN  /\ req.type = "getNewTasks" /\ req.pc = "fetch_user"
        /\ IF ~user.present THEN SetReq(req, Respond(req, 404))
           ELSE IF user.is_banned THEN SetReq(req, Respond(req, 403))
           ELSE SetReq(req, [req EXCEPT !.pc = "fetch_tasks"])
        /\ UNCHANGED <<now, store, history>>

\* GET tasks_new: the active tasks
GetNewTasksFetchTasks(req) ==
    /\ req.type = "getNewTasks" /\ req.pc = "fetch_tasks"
    /\ SetReq(req, [req EXCEPT !.pc = "fetch_completed"])
    /\ UNCHANGED <<now, store, history>>

\* GET user_tasks_new: the tasks this user completed; the list is sent.
GetNewTasksFetchCompleted(req) ==
    /\ req.type = "getNewTasks" /\ req.pc = "fetch_completed"
    /\ SetReq(req, Respond(req, 200))
    /\ UNCHANGED <<now, store, history>>

\* ------------------------------------------------------------------------
\* The specifications
\* ------------------------------------------------------------------------
\* Every request type, on every initial store.
Next ==
    \/ Tick
    \/ StartTokenRequest
    \/ StartGetUserData
    \/ StartGenerateActionId
    \/ StartRegister
    \/ StartCommission
    \/ StartGetNewTasks
    \/ \E req \in Requests : RegisterFetchUser(req)
    \/ \E req \in Requests : RegisterInsert(req)
    \/ \E req \in Requests : HandleCommissionGet(req)
    \/ \E req \in Requests : HandleCommissionPatch(req)
    \/ \E req \in Requests : HandleCommissionPost(req)
    \/ \E req \in Requests : GetNewTasksFetchUser(req)
    \/ \E req \in Requests : GetNewTasksFetchTasks(req)
    \/ \E req \in Requests : GetNewTasksFetchCompleted(req)
    \/ \E req \in Requests : GenerateActionIdFetchUser(req)
    \/ \E req \in Requests : GenerateActionIdInsert(req)
    \/ \E req \in Requests : ValidateGet(req)
    \/ \E req \in Requests : ValidateDelete(req)
    \/ \E req \in Requests : WatchAdFetchUser(req)
    \/ \E req \in Requests : WatchAdRate(req)
    \/ \E req \in Requests : WatchAdPatch(req)
    \/ \E req \in Requests : PreSpinFetchUser(req)
    \/ \E req \in Requests : SpinResultFetchUser(req)
    \/ \E req \in Requests : SpinResultRate(req, PrizeIndices)
    \/ \E req \in Requests : SpinResultPatch(req)
    \/ \E req \in Requests : CompleteTaskFetchUser(req)
    \/ \E req \in Requests : CompleteTaskRate(req)
    \/ \E req \in Requests : CompleteTaskMembership(req)
    \/ \E req \in Requests : CompleteTaskPatch(req)
    \/ \E req \in Requests : CompleteNewTaskFetchUser(req)
    \/ \E req \in Requests : CompleteNewTaskCheckCompleted(req)
    \/ \E req \in Requests : CompleteNewTaskFetchTask(req)
    \/ \E req \in Requests : CompleteNewTaskRate(req)
    \/ \E req \in Requests : CompleteNewTaskPatchTask(req)
    \/ \E req \in Requests : CompleteNewTaskInsert(req)
    \/ \E req \in Requests : CompleteNewTaskPatchUser(req)
    \/ \E req \in Requests : WithdrawFetchUser(req)
    \/ \E req \in Requests : WithdrawRate(req)
    \/ \E req \in Requests : WithdrawPatch(req)
    \/ \E req \in Requests : WithdrawInsert(req)
    \/ \E req \in Requests : ResetGet(req)
    \/ \E req \in Requests : ResetPatch(req)
    \/ \E req \in Requests : GetUserDataFetch(req)
    \/ \E req \in Requests : GetUserDataReferrals(req)
    \/ \E req \in Requests : GetUserDataHistory(req)
    \/ \E req \in Requests : GetUserDataTouch(req)
    \/ \E req \in Requests : CommissionGet(req)
    \/ \E req \in Requests : CommissionPatch(req)
    \/ \E req \in Requests : CommissionPost(req)

Spec == Init /\ [][Next]_vars

\* The ad-view requests of a user that holds two watchAd tokens.
InitAd == InitStore(InitProfiles, {<<"watchAd", "watchAd">>})

NextAd ==
    \/ Tick
    \/ StartTokenRequest
    \/ \E req \in Requests : ValidateGet(req)
    \/ \E req \in Requests : ValidateDelete(req)
    \/ \E req \in Requests : WatchAdFetchUser(req)
    \/ \E req \in Requests : WatchAdRate(req)
    \/ \E req \in Requests : WatchAdPatch(req)
    \/ \E req \in Requests : CommissionGet(req)
    \/ \E req \in Requests : CommissionPatch(req)
    \/ \E req \in Requests : CommissionPost(req)

SpecAd == InitAd /\ [][NextAd]_vars

\* The caps of a user's ad views and spins: a user that is one below the caps
\* or at the caps, with two ad tokens or two spin tokens.
CapProfiles ==
    {c \in InitProfiles : c.ads >= DAILY_MAX_ADS - 1 /\ c.spins >= DAILY_MAX_SPINS - 1}

InitCaps ==
    InitStore(CapProfiles, {<<"watchAd", "watchAd">>, <<"spinResult", "spinResult">>})

NextCaps ==
    \/ Tick
    \/ StartTokenRequest
    \/ StartGetUserData
    \/ \E req \in Requests : ValidateGet(req)
    \/ \E req \in Requests : ValidateDelete(req)
    \/ \E req \in Requests : WatchAdFetchUser(req)
    \/ \E req \in Requests : WatchAdRate(req)
    \/ \E req \in Requests : WatchAdPatch(req)
    \/ \E req \in Requests : SpinResultFetchUser(req)
    \/ \E req \in Requests : SpinResultRate(req, PrizeIndices)
    \/ \E req \in Requests : SpinResultPatch(req)
    \/ \E req \in Requests : ResetGet(req)
    \/ \E req \in Requests : ResetPatch(req)
    \/ \E req \in Requests : GetUserDataFetch(req)
    \/ \E req \in Requests : GetUserDataReferrals(req)
    \/ \E req \in Requests : GetUserDataHistory(req)
    \/ \E req \in Requests : GetUserDataTouch(req)
    \/ \E req \in Requests : CommissionGet(req)
    \/ \E req \in Requests : CommissionPatch(req)
    \/ \E req \in Requests : CommissionPost(req)

SpecCaps == InitCaps /\ [][NextCaps]_vars

\* The reset of the daily limits: each counter of user 1 is one below its
\* cap, or at its cap since exactly RESET_INTERVAL_MS, or since one
\* millisecond more, independently of the other counter.
CounterStates(cap) ==
    {[n |-> cap - 1, at |-> NULL],
     [n |-> cap, at |-> StartTime - RESET_INTERVAL_MS],
     [n |-> cap, at |-> StartTime - RESET_INTERVAL_MS - 1]}

ResetProfiles ==
    {[ads |-> a.n, adsAt |-> a.at, spins |-> s.n, spinsAt |-> s.at,
      banned |-> FALSE, last |-> LastSeen]
     : a \in CounterStates(DAILY_MAX_ADS), s \in CounterStates(DAILY_MAX_SPINS)}

InitReset == InitStore(ResetProfiles, {<<"watchAd", "watchAd">>})

NextReset ==
    \/ Tick
    \/ StartGetUserData
    \/ \E req \in Requests : ResetGet(req)
    \/ \E req \in Requests : ResetPatch(req)
    \/ \E req \in Requests : GetUserDataFetch(req)
    \/ \E req \in Requests : GetUserDataReferrals(req)
    \/ \E req \in Requests : GetUserDataHistory(req)
    \/ \E req \in Requests : GetUserDataTouch(req)

SpecReset == InitReset /\ [][NextReset]_vars

\* The spin of the wheel: a user that is one spin below the cap or at the
\* cap and holds one spinResult token, and a wheel that can stop on every
\* sector.
InitSpin == InitStore(CapProfiles, {<<"spinResult">>})

NextSpin ==
    \/ Tick
    \/ StartTokenRequest
    \/ \E req \in Requests : ValidateGet(req)
    \/ \E req \in Requests : ValidateDelete(req)
    \/ \E req \in Requests : SpinResultFetchUser(req)
    \/ \E req \in Requests : SpinResultRate(req, PrizeIndices)
    \/ \E req \in Requests : SpinResultPatch(req)
    \/ \E req \in Requests : CommissionGet(req)
    \/ \E req \in Requests : CommissionPatch(req)
    \/ \E req \in Requests : CommissionPost(req)

SpecSpin == InitSpin /\ [][NextSpin]_vars

\* The two phases of a spin: user 1 holds a preSpin token and a spinResult
\* token and is banned, one spin below the cap, at the cap, or was active one
\* millisecond less than a rate interval ago.
RecentlySeen == StartTime - MIN_TIME_BETWEEN_ACTIONS_MS + 1

SpinPhaseProfiles ==
    {c \in InitProfiles : c.banned \/ c.spinsAt \in {NULL, StartTime - RESET_INTERVAL_MS}}
    \cup {[ads |-> 0, adsAt |-> NULL, spins |-> 0, spinsAt |-> NULL,
           banned |-> FALSE, last |-> RecentlySeen]}

InitSpinPhases == InitStore(SpinPhaseProfiles, {<<"preSpin", "spinResult">>})

NextSpinPhases ==
    \/ Tick
    \/ StartTokenRequest
    \/ \E req \in Requests : ValidateGet(req)
    \/ \E req \in Requests : ValidateDelete(req)
    \/ \E req \in Requests : PreSpinFetchUser(req)
    \/ \E req \in Requests : SpinResultFetchUser(req)
    \/ \E req \in Requests : SpinResultRate(req, PrizeIndices)
    \/ \E req \in Requests : SpinResultPatch(req)
    \/ \E req \in Requests : CommissionGet(req)
    \/ \E req \in Requests : CommissionPatch(req)
    \/ \E req \in Requests : CommissionPost(req)

SpecSpinPhases == InitSpinPhases /\ [][NextSpinPhases]_vars

\* The tasks: user 1 (banned, or not) holds a completeNewTask token, and a
\* second one belongs to user 1 or to user 2.  The task is missing, inactive,
\* full, open with room for one more user, or open with room for one user in
\* all; or user 1 has completed it before.
TaskTokenOwners == {<<1, 1>>, <<1, 2>>}

TaskRow(maxUsers, currentUsers, isActive) ==
    [present |-> TRUE, task_reward |-> 50, max_users |-> maxUsers,
     current_users |-> currentUsers, is_active |-> isActive]

TaskProfiles ==
    {[task |-> NoTask, rows |-> <<>>],
     [task |-> TaskRow(2, 1, FALSE), rows |-> <<>>],
     [task |-> TaskRow(2, 2, TRUE), rows |-> <<>>],
     [task |-> TaskRow(2, 1, TRUE), rows |-> <<>>],
     [task |-> TaskRow(1, 0, TRUE), rows |-> <<>>],
     [task |-> TaskRow(2, 1, TRUE), rows |-> <<[user_id |-> 1, task_id |-> 1]>>]}

TaskUserProfiles == {c \in InitProfiles : c.ads = DAILY_MAX_ADS - 1 \/ c.banned}

InitTasks ==
    /\ now = StartTime
    /\ \E c \in TaskUserProfiles :
          users = [u \in UserIds |->
                     IF u = 1 THEN InitUser1(c) ELSE NewUser(NULL, LastSeen)]
    /\ \E owners \in TaskTokenOwners :
          /\ temp_actions =
                {[id |-> i, user_id |-> owners[i], action_id |-> i,
                  action_type |-> "completeNewTask",
                  created_at |-> IF i = 1 THEN StartTime - ACTION_ID_EXPIRY_MS
                                 ELSE StartTime] : i \in 1..Len(owners)}
          /\ issued = [i \in 1..Len(owners) |->
                         <<owners[i], "completeNewTask",
                           IF i = 1 THEN StartTime - ACTION_ID_EXPIRY_MS ELSE StartTime>>]
    /\ \E p \in TaskProfiles :
          /\ tasks_new = [t \in TaskIds |-> p.task]
          /\ user_tasks_new = p.rows
    /\ withdrawal_history = <<>>
    /\ commission_history = <<>>
    /\ reqs = EmptyBag
    /\ accepted = {}
    /\ last_grant = [u \in UserIds |-> NoGrant]

NextTasks ==
    \/ Tick
    \/ StartTokenRequest
    \/ \E req \in Requests : ValidateGet(req)
    \/ \E req \in Requests : ValidateDelete(req)
    \/ \E req \in Requests : CompleteNewTaskFetchUser(req)
    \/ \E req \in Requests : CompleteNewTaskCheckCompleted(req)
    \/ \E req \in Requests : CompleteNewTaskFetchTask(req)
    \/ \E req \in Requests : CompleteNewTaskRate(req)
    \/ \E req \in Requests : CompleteNewTaskPatchTask(req)
    \/ \E req \in Requests : CompleteNewTaskInsert(req)
    \/ \E req \in Requests : CompleteNewTaskPatchUser(req)
    \/ \E req \in Requests : CommissionGet(req)
    \/ \E req \in Requests : CommissionPatch(req)
    \/ \E req \in Requests : CommissionPost(req)

SpecTasks == InitTasks /\ [][NextTasks]_vars

\* The withdrawals of a user (banned, or not) that holds two withdraw tokens
\* and a balance of 1500 coins.
InitWithdraw ==
    InitStore({c \in InitProfiles : c.ads = 0}, {<<"withdraw", "withdraw">>})

NextWithdraw ==
    \/ Tick
    \/ StartTokenRequest
    \/ \E req \in Requests : ValidateGet(req)
    \/ \E req \in Requests : ValidateDelete(req)
    \/ \E req \in Requests : WithdrawFetchUser(req)
    \/ \E req \in Requests : WithdrawRate(req)
    \/ \E req \in Requests : WithdrawPatch(req)
    \/ \E req \in Requests : WithdrawInsert(req)

SpecWithdraw == InitWithdraw /\ [][NextWithdraw]_vars

\* ------------------------------------------------------------------------
\* The ban: user 1 is banned, one ad below the cap, or at the caps for more
\* than RESET_INTERVAL_MS, and holds one token; its referrer, user 2, is
\* banned or not; every handler runs.
\* ------------------------------------------------------------------------
BanProfiles ==
    {c \in InitProfiles :
        \/ c.banned
        \/ c.ads = DAILY_MAX_ADS - 1
        \/ c.adsAt = StartTime - RESET_INTERVAL_MS - 1}

BanReferrers ==
    {[NewUser(NULL, LastSeen) EXCEPT !.is_banned = b] : b \in BOOLEAN}

BanTokenPlans == {<<k>> : k \in ActionTypes}

InitBanned ==
    \/ InitReferred(BanProfiles, BanTokenPlans, BanReferrers)
    \/ InitReferred({c \in BanProfiles : ~c.banned /\ c.adsAt = NULL},
                    {<<"watchAd">>}, {NoUser})

SpecBanned == InitBanned /\ [][Next]_vars

\* ------------------------------------------------------------------------
\* The commission: the ad views of user 1, one ad below the cap, whose
\* referrer exists, is banned, or is missing (handleRegister stores ref_by
\* as it was sent); the store calls of the commission can fail.
\* ------------------------------------------------------------------------
CommissionReferrers ==
    {NewUser(NULL, LastSeen), [NewUser(NULL, LastSeen) EXCEPT !.is_banned = TRUE], NoUser}

InitCommission ==
    InitReferred({c \in InitProfiles : c.ads = DAILY_MAX_ADS - 1},
                 {<<"watchAd", "watchAd">>}, CommissionReferrers)

NextCommission ==
    \/ Tick
    \/ StartTokenRequest
    \/ \E req \in Requests : ValidateGet(req)
    \/ \E req \in Requests : ValidateDelete(req)
    \/ \E req \in Requests : WatchAdFetchUser(req)
    \/ \E req \in Requests : WatchAdRate(req)
    \/ \E req \in Requests : WatchAdPatch(req)
    \/ \E req \in Requests : CommissionGet(req)
    \/ \E req \in Requests : CommissionPatch(req)
    \/ \E req \in Requests : CommissionPost(req)
    \/ \E req \in Requests : CommissionFails(req)

SpecCommission == InitCommission /\ [][NextCommission]_vars

\* ------------------------------------------------------------------------
\* The identity gate: requests of every type with initData that fails the
\* check, next to the getUserData requests of a session that passes it.
\* ------------------------------------------------------------------------
InitGate == InitStore(CapProfiles, {<<"watchAd", "watchAd">>})

NextGate ==
    \/ Tick
    \/ StartUnauthenticated
    \/ StartGetUserData
    \/ \E req \in Requests : ResetGet(req)
    \/ \E req \in Requests : ResetPatch(req)
    \/ \E req \in Requests : GetUserDataFetch(req)
    \/ \E req \in Requests : GetUserDataReferrals(req)
    \/ \E req \in Requests : GetUserDataHistory(req)
    \/ \E req \in Requests : GetUserDataTouch(req)

SpecGate == InitGate /\ [][NextGate]_vars

\* Token issuance alone: generateActionId for user 1 (never acted, banned, or
\* below the caps) and for user 2 (present, banned, or not registered).
InitIssue == InitReferred(BanProfiles, {<<"watchAd">>}, CommissionReferrers)

NextIssue ==
    \/ Tick
    \/ StartGenerateActionId
    \/ \E req \in Requests : GenerateActionIdFetchUser(req)
    \/ \E req \in Requests : GenerateActionIdInsert(req)

SpecIssue == InitIssue /\ [][NextIssue]_vars

\* Withdrawals on a store whose insert into withdrawal_history can fail.
NextWithdrawFails ==
    \/ Tick
    \/ StartTokenRequest
    \/ \E req \in Requests : ValidateGet(req)
    \/ \E req \in Requests : ValidateDelete(req)
    \/ \E req \in Requests : WithdrawFetchUser(req)
    \/ \E req \in Requests : WithdrawRate(req)
    \/ \E req \in Requests : WithdrawPatch(req)
    \/ \E req \in Requests : WithdrawInsert(req)
    \/ \E req \in Requests : WithdrawInsertFails(req)

SpecWithdrawFails == InitWithdraw /\ [][NextWithdrawFails]_vars

\* Three ad requests of a user that holds three watchAd tokens.
InitThreeAds ==
    InitStore({c \in InitProfiles : c.ads = 0 /\ ~c.banned},
              {<<"watchAd", "watchAd", "watchAd">>})

NextThreeAds ==
    \/ Tick
    \/ StartTokenRequestUpTo(MaxReq + 1)
    \/ \E req \in Requests : ValidateGet(req)
    \/ \E req \in Requests : ValidateDelete(req)
    \/ \E req \in Requests : WatchAdFetchUser(req)
    \/ \E req \in Requests : WatchAdRate(req)
    \/ \E req \in Requests : WatchAdPatch(req)
    \/ \E req \in Requests : CommissionGet(req)
    \/ \E req \in Requests : CommissionPatch(req)
    \/ \E req \in Requests : CommissionPost(req)

SpecThreeAds == InitThreeAds /\ [][NextThreeAds]_vars

\* Ad views on a store whose calls can fail after the token was consumed.
NextBurn ==
    \/ Tick
    \/ StartTokenRequest
    \/ \E req \in Requests : ValidateGet(req)
    \/ \E req \in Requests : ValidateDelete(req)
    \/ \E req \in Requests : WatchAdFetchUser(req)
    \/ \E req \in Requests : WatchAdRate(req)
    \/ \E req \in Requests : WatchAdPatch(req)
    \/ \E req \in Requests : ValidateStoreCallFails(req)
    \/ \E req \in Requests : HandlerStoreCallFails(req)
    \/ \E req \in Requests : CommissionGet(req)
    \/ \E req \in Requests : CommissionPatch(req)
    \/ \E req \in Requests : CommissionPost(req)

SpecBurn == InitAd /\ [][NextBurn]_vars

\* The requests that call checkRateLimit, on a store whose read of
\* last_activity can fail: a user that never acted, or one that is one ad
\* and one spin below the caps, with two tokens of one of these types.
InitRateFails ==
    InitStore({c \in InitProfiles : ~c.banned /\ c.ads < DAILY_MAX_ADS},
              {<<k, k>> : k \in {"watchAd", "spinResult", "completeTask",
                                 "completeNewTask", "withdraw"}})

NextRateFails ==
    \/ Tick
    \/ StartTokenRequest
    \/ \E req \in Requests : ValidateGet(req)
    \/ \E req \in Requests : ValidateDelete(req)
    \/ \E req \in Requests : WatchAdFetchUser(req)
    \/ \E req \in Requests : WatchAdRate(req)
    \/ \E req \in Requests : WatchAdRateReadFails(req)
    \/ \E req \in Requests : WatchAdPatch(req)
    \/ \E req \in Requests : SpinResultFetchUser(req)
    \/ \E req \in Requests : SpinResultRate(req, PrizeIndices)
    \/ \E req \in Requests : SpinResultRateReadFails(req, PrizeIndices)
    \/ \E req \in Requests : SpinResultPatch(req)
    \/ \E req \in Requests : CompleteTaskFetchUser(req)
    \/ \E req \in Requests : CompleteTaskRate(req)
    \/ \E req \in Requests : CompleteTaskRateReadFails(req)
    \/ \E req \in Requests : CompleteTaskMembership(req)
    \/ \E req \in Requests : CompleteTaskPatch(req)
    \/ \E req \in Requests : CompleteNewTaskFetchUser(req)
    \/ \E req \in Requests : CompleteNewTaskCheckCompleted(req)
    \/ \E req \in Requests : CompleteNewTaskFetchTask(req)
    \/ \E req \in Requests : CompleteNewTaskRate(req)
    \/ \E req \in Requests : CompleteNewTaskRateReadFails(req)
    \/ \E req \in Requests : CompleteNewTaskPatchTask(req)
    \/ \E req \in Requests : CompleteNewTaskInsert(req)
    \/ \E req \in Requests : CompleteNewTaskPatchUser(req)
    \/ \E req \in Requests : WithdrawFetchUser(req)
    \/ \E req \in Requests : WithdrawRate(req)
    \/ \E req \in Requests : WithdrawRateReadFails(req)
    \/ \E req \in Requests : WithdrawPatch(req)
    \/ \E req \in Requests : WithdrawInsert(req)
    \/ \E req \in Requests : CommissionGet(req)
    \/ \E req \in Requests : CommissionPatch(req)
    \/ \E req \in Requests : CommissionPost(req)

SpecRateFails == InitRateFails /\ [][NextRateFails]_vars

\* The requests that carry no token, on a store whose calls can fail: user 1
\* never acted or reached both caps more than RESET_INTERVAL_MS ago, user 2
\* is registered or not.
InitStoreFails ==
    \/ InitStore({c \in InitProfiles : ~c.banned /\ c.ads # DAILY_MAX_ADS - 1}, {<<>>})
    \/ InitReferred({c \in InitProfiles : c.ads = 0 /\ ~c.banned}, {<<>>}, {NoUser})

NextStoreFails ==
    \/ Tick
    \/ StartGetUserData
    \/ StartGenerateActionId
    \/ StartRegister
    \/ StartCommission
    \/ StartGetNewTasks
    \/ \E req \in Requests : RegisterFetchUser(req)
    \/ \E req \in Requests : RegisterInsert(req)
    \/ \E req \in Requests : HandleCommissionGet(req)
    \/ \E req \in Requests : HandleCommissionPatch(req)
    \/ \E req \in Requests : HandleCommissionPost(req)
    \/ \E req \in Requests : GetNewTasksFetchUser(req)
    \/ \E req \in Requests : GetNewTasksFetchTasks(req)
    \/ \E req \in Requests : GetNewTasksFetchCompleted(req)
    \/ \E req \in Requests : GenerateActionIdFetchUser(req)
    \/ \E req \in Requests : GenerateActionIdInsert(req)
    \/ \E req \in Requests : ResetGet(req)
    \/ \E req \in Requests : ResetPatch(req)
    \/ \E req \in Requests : ResetStoreCallFails(req)
    \/ \E req \in Requests : GetUserDataFetch(req)
    \/ \E req \in Requests : GetUserDataReferrals(req)
    \/ \E req \in Requests : GetUserDataHistory(req)
    \/ \E req \in Requests : GetUserDataTouch(req)
    \/ \E req \in Requests : HandlerStoreCallFails(req)

SpecStoreFails == InitStoreFails /\ [][NextStoreFails]_vars

\* Registration of user 2, followed by its token requests and ad views.
InitRegister ==
    InitReferred({c \in InitProfiles : c.ads = 0 /\ ~c.banned}, {<<>>}, {NoUser})

NextRegister ==
    \/ Tick
    \/ StartRegister
    \/ StartGenerateActionId
    \/ StartTokenRequestUpTo(MaxReq + 1)
    \/ \E req \in Requests : RegisterFetchUser(req)
    \/ \E req \in Requests : RegisterInsert(req)
    \/ \E req \in Requests : GenerateActionIdFetchUser(req)
    \/ \E req \in Requests : GenerateActionIdInsert(req)
    \/ \E req \in Requests : ValidateGet(req)
    \/ \E req \in Requests : ValidateDelete(req)
    \/ \E req \in Requests : WatchAdFetchUser(req)
    \/ \E req \in Requests : WatchAdRate(req)
    \/ \E req \in Requests : WatchAdPatch(req)
    \/ \E req \in Requests : CommissionGet(req)
    \/ \E req \in Requests : CommissionPatch(req)
    \/ \E req \in Requests : CommissionPost(req)

SpecRegister == InitRegister /\ [][NextRegister]_vars

\* Spins of a user that holds no token: every token is asked for first.
InitSpinOrder ==
    InitStore({c \in InitProfiles : c.spins = 0 /\ ~c.banned}, {<<>>})

NextSpinOrder ==
    \/ Tick
    \/ StartGenerateActionId
    \/ StartTokenRequest
    \/ \E req \in Requests : GenerateActionIdFetchUser(req)
    \/ \E req \in Requests : GenerateActionIdInsert(req)
    \/ \E req \in Requests : ValidateGet(req)
    \/ \E req \in Requests : ValidateDelete(req)
    \/ \E req \in Requests : PreSpinFetchUser(req)
    \/ \E req \in Requests : SpinResultFetchUser(req)
    \/ \E req \in Requests : SpinResultRate(req, PrizeIndices)
    \/ \E req \in Requests : SpinResultPatch(req)
    \/ \E req \in Requests : CommissionGet(req)
    \/ \E req \in Requests : CommissionPatch(req)
    \/ \E req \in Requests : CommissionPost(req)

SpecSpinOrder == InitSpinOrder /\ [][NextSpinOrder]_vars

\* Ad views next to requests of type commission.
InitEndpoint == InitReferred(BanProfiles, {<<"watchAd">>}, CommissionReferrers)

NextEndpoint ==
    \/ Tick
    \/ StartTokenRequest
    \/ StartCommission
    \/ \E req \in Requests : ValidateGet(req)
    \/ \E req \in Requests : ValidateDelete(req)
    \/ \E req \in Requests : WatchAdFetchUser(req)
    \/ \E req \in Requests : WatchAdRate(req)
    \/ \E req \in Requests : WatchAdPatch(req)
    \/ \E req \in Requests : CommissionGet(req)
    \/ \E req \in Requests : CommissionPatch(req)
    \/ \E req \in Requests : CommissionPost(req)
    \/ \E req \in Requests : HandleCommissionGet(req)
    \/ \E req \in Requests : HandleCommissionPatch(req)
    \/ \E req \in Requests : HandleCommissionPost(req)

SpecEndpoint == InitEndpoint /\ [][NextEndpoint]_vars

\* ------------------------------------------------------------------------
\* Properties
\* ------------------------------------------------------------------------
\* What request req presents to validateAndUseActionId.
Presented(req) == <<req.user_id, req.action_id, req.type>>

\* validateAndUseActionId returned true to req.
Won(req) ==
    /\ req.type \in ActionTypes
    /\ req.pc \notin {"validate", "consume"}
    /\ req.status \notin {400, 408, 409}

\* The number of requests in set S, counted with their multiplicity in reqs.
NumberOf(S) == BagCardinality([r \in S |-> reqs[r]])

\* C1 -- Token single-use.  Once validateAndUseActionId has accepted
\* (user, token, kind), the lookup of every request that presents the same
\* triple afterwards ends the request with 409, and the step changes no table:
\* no balance, no counter.
TokenSingleUse ==
    [][\A req \in Requests :
          (Presented(req) \in accepted /\ ValidateGet(req))
          => /\ SetReq(req, Respond(req, 409))
             /\ ~Respond(req, 409).granted
             /\ UNCHANGED store]_vars

\* A replayed triple was rejected with 409.
ReplayRejected ==
    \E req \in Requests :
        /\ req.pc = "done" /\ req.status = 409
        /\ Presented(req) \in accepted
        /\ \E first \in Requests : first.action_id = req.action_id /\ first.granted

\* C2 -- At most one winner.  Of the requests that present the same token,
\* however their store calls interleave, at most one has
\* validateAndUseActionId return true, and at most one is granted a reward.
AtMostOneWinner ==
    \A a \in DOMAIN issued :
        /\ NumberOf({r \in Requests : r.action_id = a /\ Won(r)}) <= 1
        /\ NumberOf({r \in Requests : r.action_id = a /\ r.granted}) <= 1

\* The request has written to the user record, the task counter, the
\* completion table or the withdrawal table.
HasWritten(req) ==
    \/ req.granted
    \/ req.type = "completeNewTask" /\ req.pc \in {"insert_completion", "patch_user"}

\* C3 -- Token consumption gates every write.  A request of the six
\* token-carrying operations has written to the user record, the task counter,
\* the completion table or the withdrawal table only if its own DELETE removed
\* the token row before; a request whose consumption failed (400, 409, 408)
\* has written nothing.
ConsumptionGatesWrites ==
    \A req \in Requests :
        req.type \in ActionTypes =>
            /\ HasWritten(req) => req.removed
            /\ (req.pc = "done" /\ req.status \in {400, 408, 409}) => ~HasWritten(req)

\* C4 -- Token expiry.  When validateAndUseActionId has judged a matching
\* token (at time checked_at) and deletes its row: if the token was older than
\* ACTION_ID_EXPIRY_MS at that time, the request ends with 408, ungranted,
\* and is not accepted; if it was at most that old, the request is accepted and
\* goes on to its handler.  In both cases the row is gone.
TokenExpiry ==
    [][\A req \in Requests :
          ValidateDelete(req) =>
              LET age == req.checked_at - issued[req.action_id][3]
              IN  /\ ~\E a \in temp_actions' : a.id = req.action_id
                  /\ IF age > ACTION_ID_EXPIRY_MS
                     THEN /\ \E new \in BagToSet(reqs') :
                                /\ Presented(new) = Presented(req)
                                /\ new.pc = "done" /\ new.status = 408 /\ ~new.granted
                          /\ accepted' = accepted
                          /\ UNCHANGED users
                     ELSE /\ \E new \in BagToSet(reqs') :
                                /\ Presented(new) = Presented(req)
                                /\ new.pc = "fetch_user" /\ new.type = req.type
                          /\ Presented(req) \in accepted'
      ]_vars

\* One request was refused a token that was older than ACTION_ID_EXPIRY_MS,
\* and another one was granted its reward on a token that was exactly
\* ACTION_ID_EXPIRY_MS old when it was presented.
ExpiredAndBoundary ==
    /\ now > StartTime
    /\ \E req \in Requests :
          /\ req.pc = "done" /\ req.status = 408
          /\ issued[req.action_id][3] = StartTime - ACTION_ID_EXPIRY_MS
    /\ \E req \in Requests :
          /\ req.granted
          /\ issued[req.action_id][3] = StartTime - ACTION_ID_EXPIRY_MS

\* C5 -- Token binding.  The lookup of validateAndUseActionId lets a request
\* on to the consumption only when a stored row has the presented user id,
\* token value and action kind; in every other case (wrong value, wrong kind,
\* wrong user, consumed token) the request ends with the same 409 and the step
\* deletes no row and changes no user.  Only triples that were issued are
\* ever accepted.
TokenBinding ==
    [][/\ \A req \in Requests :
            (ValidateGet(req) /\ req.action_id # NoActionId) =>
                IF \E a \in temp_actions :
                       /\ a.user_id = req.user_id
                       /\ a.action_id = req.action_id
                       /\ a.action_type = req.type
                THEN \E new \in BagToSet(reqs') :
                        new.pc = "consume" /\ Presented(new) = Presented(req)
                ELSE /\ SetReq(req, Respond(req, 409))
                     /\ UNCHANGED store
       /\ accepted' \subseteq {<<issued[a][1], a, issued[a][2]>> : a \in DOMAIN issued}
      ]_vars

\* A request with a token of another kind and a request of another user were
\* both refused with 409, and the rows of their tokens are still stored.
WrongKindAndWrongUserRejected ==
    \E r1, r2 \in Requests :
        /\ r1.pc = "done" /\ r1.status = 409 /\ r1.action_id \in DOMAIN issued
        /\ r1.user_id = issued[r1.action_id][1] /\ r1.type # issued[r1.action_id][2]
        /\ r2.pc = "done" /\ r2.status = 409 /\ r2.action_id \in DOMAIN issued
        /\ r2.user_id # issued[r2.action_id][1] /\ r2.type = issued[r2.action_id][2]
        /\ \E a \in temp_actions : a.id = r1.action_id
        /\ \E a \in temp_actions : a.id = r2.action_id

\* The requests received so far carry tokens that differ from one another.
DistinctTokens ==
    \A r1 \in Requests :
        /\ reqs[r1] = 1
        /\ \A r2 \in Requests \ {r1} : r1.action_id # r2.action_id

\* The moments at which the other reward-granting requests of the user of req
\* were made: the stamp of the reward applied last, and the stamps that the
\* requests on their way to their reward write carry.
PriorRewardTimes(req) ==
    {last_grant[req.user_id].at : x \in {y \in {1} : last_grant[req.user_id].at # NULL}}
    \cup {r.payload.last_activity :
             r \in {y \in Requests \ {req} : /\ y.user_id = req.user_id
                                             /\ y.type \in {"watchAd", "spinResult"}
                                             /\ y.pc = "patch_user"}}

\* C6 -- Rate spacing, for any two reward-granting requests of a user.  While
\* the requests carry distinct tokens, an ad or spin request that reaches its
\* rate check less than MIN_TIME_BETWEEN_ACTIONS_MS after another
\* reward-granting request of the same user was made is refused with 429 and
\* a remaining wait that is not negative; a request that comes
\* MIN_TIME_BETWEEN_ACTIONS_MS or more after every such request is not refused
\* with 429 (unless the last_activity of the initial store, older than the
\* first request of the behaviour, is what it was measured against).
RateSpacingOfRequests ==
    [][\A req \in Requests :
          (/\ DistinctTokens
           /\ req.type \in {"watchAd", "spinResult"} /\ req.pc = "rate"
           /\ reqs' # reqs)
          => LET recent == \E t \in PriorRewardTimes(req) :
                              now - t < MIN_TIME_BETWEEN_ACTIONS_MS
             IN  \A new \in BagToSet(reqs') :
                    SetReq(req, new)
                    => /\ recent => /\ new.pc = "done" /\ new.status = 429
                                    /\ new.remainingTime >= 0
                       /\ (new.pc = "done" /\ new.status = 429)
                             => \/ recent
                                \/ users[req.user_id].last_activity < StartTime
      ]_vars

\* Rate spacing of ad requests that do not overlap, with no other request of
\* the user between them.  When an ad request reaches its rate check after a
\* reward of the same user was granted, it is refused with 429 and a remaining
\* wait of MIN_TIME_BETWEEN_ACTIONS_MS minus the elapsed time (which is not
\* negative) if less than MIN_TIME_BETWEEN_ACTIONS_MS passed since the stamp
\* of that grant; otherwise it is refused only for the cap, and else goes on
\* to its reward write.
RateSpacing ==
    [][\A req \in Requests :
          (WatchAdRate(req) /\ last_grant[req.user_id].at # NULL) =>
              LET elapsed == now - last_grant[req.user_id].at
              IN  IF elapsed < MIN_TIME_BETWEEN_ACTIONS_MS
                  THEN /\ MIN_TIME_BETWEEN_ACTIONS_MS - elapsed >= 0
                       /\ SetReq(req, [Respond(req, 429) EXCEPT
                              !.remainingTime = MIN_TIME_BETWEEN_ACTIONS_MS - elapsed])
                  ELSE IF req.user.ads_watched_today >= DAILY_MAX_ADS
                  THEN SetReq(req, Respond(req, 403))
                  ELSE \E new \in BagToSet(reqs') :
                          /\ new.pc = "patch_user" /\ new.action_id = req.action_id
                          /\ new.payload.last_activity = now
         ]_vars

\* An ad request made one millisecond short of the interval after a granted
\* one was refused with 429 and a remaining wait of one millisecond.
SecondTooEarly ==
    \E req \in Requests :
        /\ req.type = "watchAd" /\ req.pc = "done" /\ req.status = 429
        /\ req.remainingTime = 1
        /\ last_grant[req.user_id].at = StartTime
        /\ \E first \in Requests : first.granted /\ first.user_id = req.user_id

\* C7 -- No window between the rate check and the stamp.  Two rewards of the
\* same user that are granted one after the other on distinct tokens carry
\* stamps that are at least MIN_TIME_BETWEEN_ACTIONS_MS apart.
NoRateWindow ==
    [][\A u \in UserIds :
          (/\ last_grant[u].at # NULL
           /\ last_grant'[u] # last_grant[u]
           /\ last_grant'[u].action_id # last_grant[u].action_id)
          => \/ last_grant'[u].at - last_grant[u].at >= MIN_TIME_BETWEEN_ACTIONS_MS
             \/ last_grant[u].at - last_grant'[u].at >= MIN_TIME_BETWEEN_ACTIONS_MS
      ]_vars

\* C8 -- Cap invariant.  In every reachable state, however the requests
\* overlap, no user has more than DAILY_MAX_ADS ad views or more than
\* DAILY_MAX_SPINS spins.
CapInvariant ==
    \A u \in UserIds :
        /\ users[u].ads_watched_today <= DAILY_MAX_ADS
        /\ users[u].spins_today <= DAILY_MAX_SPINS

\* Two overlapping ad requests with distinct tokens were both granted and the
\* counter stands at the cap.
BothGrantedAtCap ==
    \E r1, r2 \in Requests :
        /\ r1.type = "watchAd" /\ r2.type = "watchAd"
        /\ r1.granted /\ r2.granted
        /\ r1.action_id # r2.action_id /\ r1.user_id = r2.user_id
        /\ users[r1.user_id].ads_watched_today = DAILY_MAX_ADS

\* C9 -- Cap then cooldown.  An ad request that passes the rate check for a
\* user whose counter is at the cap is refused while no more than
\* RESET_INTERVAL_MS passed since ads_limit_reached_at; once more than that
\* passed, the counter is reset and the request goes on to a reward write that
\* leaves ads_watched_today = 1.
CapThenCooldown ==
    [][\A req \in Requests :
          (/\ WatchAdRate(req)
           /\ RateLimitResult(req.user_id).ok
           /\ req.user.ads_watched_today >= DAILY_MAX_ADS
           /\ req.user.ads_limit_reached_at # NULL)
          => IF now - req.user.ads_limit_reached_at > RESET_INTERVAL_MS
             THEN \E new \in BagToSet(reqs') :
                     /\ new.pc = "patch_user" /\ new.action_id = req.action_id
                     /\ new.payload.ads_watched_today = 1
             ELSE SetReq(req, Respond(req, 403))
      ]_vars

\* C10 -- The limit timestamp is stamped once per cycle.  A step sets
\* ads_limit_reached_at (spins_limit_reached_at) only while taking the counter
\* from one below the cap to the cap, and a timestamp that is set changes only
\* by the reset, which clears it together with the counter.
LimitStampedOnce ==
    [][\A u \in UserIds :
          /\ (users[u].ads_limit_reached_at = NULL
                /\ users'[u].ads_limit_reached_at # NULL)
             => /\ users[u].ads_watched_today = DAILY_MAX_ADS - 1
                /\ users'[u].ads_watched_today = DAILY_MAX_ADS
          /\ (users[u].ads_limit_reached_at # NULL
                /\ users'[u].ads_limit_reached_at # users[u].ads_limit_reached_at)
             => /\ users'[u].ads_limit_reached_at = NULL
                /\ users'[u].ads_watched_today = 0
          /\ (users[u].spins_limit_reached_at = NULL
                /\ users'[u].spins_limit_reached_at # NULL)
             => /\ users[u].spins_today = DAILY_MAX_SPINS - 1
                /\ users'[u].spins_today = DAILY_MAX_SPINS
          /\ (users[u].spins_limit_reached_at # NULL
                /\ users'[u].spins_limit_reached_at # users[u].spins_limit_reached_at)
             => /\ users'[u].spins_limit_reached_at = NULL
                /\ users'[u].spins_today = 0
      ]_vars

\* The columns of a users row that resetDailyLimitsIfExpired may write.
AdsColumns == {"ads_watched_today", "ads_limit_reached_at"}

SpinsColumns == {"spins_today", "spins_limit_reached_at"}

\* C11 -- The reset decides each counter on its own.  With the row that
\* resetDailyLimitsIfExpired reads and the clock value of its entry, the
\* function writes exactly the columns of the counters whose timestamp is set,
\* whose count is at or above the cap and whose timestamp is more than
\* RESET_INTERVAL_MS old; it writes 0 and null there, issues no write when no
\* counter qualifies, and its write leaves every other column (the other
\* counter, the balance, last_activity) and every other user as they were.
ResetIndependent ==
    [][\A req \in Requests :
          /\ (ResetGet(req) /\ GetUser(req.user_id).present) =>
                LET user == users[req.user_id]
                    adsDue == /\ user.ads_limit_reached_at # NULL
                              /\ user.ads_watched_today >= DAILY_MAX_ADS
                              /\ req.reset_now - user.ads_limit_reached_at > RESET_INTERVAL_MS
                    spinsDue == /\ user.spins_limit_reached_at # NULL
                                /\ user.spins_today >= DAILY_MAX_SPINS
                                /\ req.reset_now - user.spins_limit_reached_at
                                      > RESET_INTERVAL_MS
                    columns == (IF adsDue THEN AdsColumns ELSE {})
                               \cup (IF spinsDue THEN SpinsColumns ELSE {})
                IN  /\ UNCHANGED store
                    /\ \E new \in BagToSet(reqs') :
                          /\ SetReq(req, new)
                          /\ new.pc = (IF columns = {} THEN "fetch_user" ELSE "reset_patch")
                          /\ DOMAIN new.payload = columns
                          /\ \A f \in columns : new.payload[f] = 0
          /\ ResetPatch(req) =>
                /\ req.payload # <<>>
                /\ \A u \in UserIds : \A f \in DOMAIN users[u] :
                      users'[u][f] =
                          IF u = req.user_id /\ f \in DOMAIN req.payload
                          THEN 0 ELSE users[u][f]
                /\ UNCHANGED <<temp_actions, tasks_new, user_tasks_new,
                               withdrawal_history, commission_history>>
      ]_vars

\* A getUserData request has reset the ads counter of a user whose spins
\* counter is at its cap since exactly RESET_INTERVAL_MS, and left the spins
\* counter and its timestamp in place.
AdsResetSpinsKept ==
    \E req \in Requests :
        /\ req.type = "getUserData" /\ req.pc = "done" /\ req.status = 200
        /\ users[req.user_id].ads_watched_today = 0
        /\ users[req.user_id].ads_limit_reached_at = NULL
        /\ users[req.user_id].spins_today = DAILY_MAX_SPINS
        /\ users[req.user_id].spins_limit_reached_at = StartTime - RESET_INTERVAL_MS

SpinChecksPass(req) ==
    /\ req.type = "spinResult" /\ req.pc = "rate"
    /\ RateLimitResult(req.user_id).ok
    /\ req.user.spins_today < DAILY_MAX_SPINS

\* C13 -- Spin result effect.  The table is [5, 10, 15, 20, 5], of which
\* exactly two sectors hold 5.  A spinResult whose checks pass draws an index
\* in 0..4 and the value at that index, and every one of the five indices can
\* be drawn.  Its reward write, applied to the row the request read, credits
\* the balance with exactly that value and raises spins_today by exactly 1,
\* and the response carries that index and that value.
SpinResultEffect ==
    [][/\ SPIN_SECTORS = <<5, 10, 15, 20, 5>>
       /\ Cardinality({i \in 0..4 : SPIN_SECTORS[i + 1] = 5}) = 2
       /\ \A req \in Requests :
            /\ SpinChecksPass(req) =>
                  \A i \in 0..4 :
                      ENABLED (/\ SpinResultRate(req, PrizeIndices)
                               /\ \E new \in BagToSet(reqs') :
                                     /\ new.pc = "patch_user"
                                     /\ new.prize_index = i)
            /\ (SpinChecksPass(req) /\ SpinResultRate(req, PrizeIndices)) =>
                  \E new \in BagToSet(reqs') :
                      /\ new.pc = "patch_user" /\ new.action_id = req.action_id
                      /\ new.prize_index \in 0..4
                      /\ new.reward = SPIN_SECTORS[new.prize_index + 1]
                      /\ SetReq(req, new)
            /\ (SpinResultPatch(req) /\ users[req.user_id] = req.user) =>
                  /\ users'[req.user_id].balance
                        = users[req.user_id].balance
                          + SPIN_SECTORS[req.prize_index + 1] * Scale
                  /\ users'[req.user_id].spins_today
                        = users[req.user_id].spins_today + 1
                  /\ \E done \in BagToSet(reqs') :
                        /\ SetReq(req, done)
                        /\ done.status = 200 /\ done.granted
                        /\ done.prize_index = req.prize_index
                        /\ done.reward = SPIN_SECTORS[req.prize_index + 1]
      ]_vars

\* A spin that stopped on the last sector (index 4) was answered with a prize
\* of 5, and the balance and the counter of the user show it.
LastSectorPaysFive ==
    /\ NumberOf({r \in Requests : r.granted}) = 1
    /\ \E req \in Requests :
          /\ req.type = "spinResult" /\ req.pc = "done" /\ req.status = 200
          /\ req.granted /\ req.prize_index = 4 /\ req.reward = 5
          /\ users[req.user_id].balance = (1500 + 5) * Scale
          /\ users[req.user_id].spins_today = DAILY_MAX_SPINS

\* C14 -- spinResult re-validates eligibility on its own.  Whatever preSpin
\* answered before, a spinResult request whose user is banned when it reads
\* the user is refused with 403; one that reaches its rate check less than
\* MIN_TIME_BETWEEN_ACTIONS_MS after the stored last_activity is refused with
\* 429; one that read a counter at or above DAILY_MAX_SPINS is refused with
\* 403; only a request that passes the three goes on to the reward write.  A
\* refusal changes no table.
SpinRevalidates ==
    [][\A req \in Requests :
          /\ (SpinResultFetchUser(req) /\ GetUser(req.user_id).present) =>
                /\ UNCHANGED store
                /\ IF users[req.user_id].is_banned
                   THEN SetReq(req, Respond(req, 403))
                   ELSE \E new \in BagToSet(reqs') :
                           /\ SetReq(req, new) /\ new.pc = "rate"
                           /\ new.user = users[req.user_id]
          /\ (SpinResultRate(req, PrizeIndices) /\ GetUser(req.user_id).present) =>
                /\ UNCHANGED store
                /\ \E new \in BagToSet(reqs') :
                      /\ SetReq(req, new)
                      /\ IF now - users[req.user_id].last_activity
                               < MIN_TIME_BETWEEN_ACTIONS_MS
                         THEN new.pc = "done" /\ new.status = 429
                         ELSE IF req.user.spins_today >= DAILY_MAX_SPINS
                         THEN new.pc = "done" /\ new.status = 403
                         ELSE new.pc = "patch_user"
      ]_vars

\* A preSpin of a user succeeded and the spinResult of the same user that
\* came after it was refused by the rate check.
SpinRefusedAfterPreSpin ==
    \E pre, spin \in Requests :
        /\ pre.type = "preSpin" /\ pre.pc = "done" /\ pre.status = 200
        /\ spin.type = "spinResult" /\ spin.pc = "done" /\ spin.status = 429
        /\ spin.user_id = pre.user_id
        /\ <<pre.user_id, pre.action_id, "preSpin">> \in accepted
        /\ <<spin.user_id, spin.action_id, "spinResult">> \in accepted

\* C15 -- The pre-spin phase validates ban, cap and rate.  A preSpin request
\* whose token was consumed fails when the user it reads is banned (403), when
\* spins_today is at the cap (403), or when less than
\* MIN_TIME_BETWEEN_ACTIONS_MS passed since the stored last_activity (429),
\* and succeeds otherwise.
PreSpinValidates ==
    [][\A req \in Requests :
          (PreSpinFetchUser(req) /\ GetUser(req.user_id).present) =>
              LET user == users[req.user_id]
              IN  \E new \in BagToSet(reqs') :
                     /\ SetReq(req, new)
                     /\ new.pc = "done"
                     /\ new.status =
                           IF user.is_banned THEN 403
                           ELSE IF now - user.last_activity < MIN_TIME_BETWEEN_ACTIONS_MS
                           THEN 429
                           ELSE IF user.spins_today >= DAILY_MAX_SPINS THEN 403
                           ELSE 200
      ]_vars

\* The task row passes the checks of handleCompleteNewTask.
TaskOpen(task) ==
    task.present /\ task.is_active /\ task.current_users < task.max_users

\* C16 -- Task completion preconditions.  A completeNewTask request that
\* finds a completion row of its user for the task, or finds the task
\* missing, inactive or with current_users >= max_users, ends there with an
\* error and writes nothing; the participant counter, the completion table
\* and the balance are written only by a request that found no completion row
\* and read an existing, active task with current_users < max_users.
TaskPreconditions ==
    [][\A req \in Requests :
          /\ CompleteNewTaskCheckCompleted(req) =>
                /\ UNCHANGED store
                /\ IF \E i \in DOMAIN user_tasks_new :
                         /\ user_tasks_new[i].user_id = req.user_id
                         /\ user_tasks_new[i].task_id = req.task_id
                   THEN SetReq(req, Respond(req, 403))
                   ELSE \E new \in BagToSet(reqs') :
                           SetReq(req, new) /\ new.pc = "fetch_task"
          /\ CompleteNewTaskFetchTask(req) =>
                /\ UNCHANGED store
                /\ IF TaskOpen(tasks_new[req.task_id])
                   THEN \E new \in BagToSet(reqs') :
                           /\ SetReq(req, new) /\ new.pc = "rate"
                           /\ new.task = tasks_new[req.task_id]
                   ELSE \E new \in BagToSet(reqs') :
                           /\ SetReq(req, new) /\ new.pc = "done"
                           /\ new.status \in {403, 404} /\ ~new.granted
          /\ (req.type = "completeNewTask"
                /\ req.pc \in {"rate", "patch_task", "insert_completion", "patch_user"})
             => TaskOpen(req.task)
          /\ (req.type = "completeNewTask"
                /\ req.pc \in {"validate", "consume", "fetch_user", "check_completed",
                              "fetch_task", "rate", "done"}
                /\ \E new \in BagToSet(reqs') : SetReq(req, new))
             => UNCHANGED <<tasks_new, user_tasks_new, users>>
      ]_vars

\* A completion was refused because the task is full, and the counter, the
\* completion table and the balances are as they were.
FullTaskRefused ==
    \E req \in Requests :
        /\ req.type = "completeNewTask" /\ req.pc = "done" /\ req.status = 403
        /\ <<req.user_id, req.action_id, req.type>> \in accepted
        /\ ~users[req.user_id].is_banned
        /\ tasks_new[req.task_id].is_active
        /\ tasks_new[req.task_id].current_users = tasks_new[req.task_id].max_users
        /\ tasks_new[req.task_id].max_users = 2
        /\ user_tasks_new = <<>>
        /\ users[req.user_id].balance = 1500 * Scale

\* C17 -- A completion is unique per (user, task).  In every reachable state
\* there is at most one completion row for each (user id, task id) pair, and
\* at most one completeNewTask request of a user was granted the reward of a
\* task.
CompletionUnique ==
    \A u \in UserIds, t \in TaskIds :
        /\ Cardinality(Completions(user_tasks_new, u, t)) <= 1
        /\ NumberOf({r \in Requests : /\ r.type = "completeNewTask" /\ r.granted
                                      /\ r.user_id = u /\ r.task_id = t}) <= 1

\* C18 -- Task capacity invariant.  In every reachable state, however the
\* completion requests overlap, the participant counter of a task is at most
\* its max_users.
TaskCapacity ==
    \A t \in TaskIds :
        tasks_new[t].present => tasks_new[t].current_users <= tasks_new[t].max_users

\* The overlapping completions of two users were both granted on a task that
\* had room for one, and the counter stands at max_users.
BothCompletedAtCapacity ==
    \E r1, r2 \in Requests :
        /\ r1.type = "completeNewTask" /\ r2.type = "completeNewTask"
        /\ r1.granted /\ r2.granted
        /\ r1.user_id # r2.user_id /\ r1.task_id = r2.task_id
        /\ tasks_new[r1.task_id].current_users = tasks_new[r1.task_id].max_users

\* C19 -- Task closes at capacity.  When a completion is granted whose
\* increment brought the participant counter to max_users, the task is left
\* flagged inactive; and a completion request that reads a task whose counter
\* is at max_users is refused with 403 and changes no table.
TaskClosesAtCapacity ==
    [][\A req \in Requests :
          /\ (/\ CompleteNewTaskPatchUser(req)
              /\ req.task.current_users + 1 = req.task.max_users)
             => ~tasks_new'[req.task_id].is_active
          /\ (/\ CompleteNewTaskFetchTask(req)
              /\ tasks_new[req.task_id].present
              /\ tasks_new[req.task_id].current_users >= tasks_new[req.task_id].max_users)
             => /\ SetReq(req, Respond(req, 403))
                /\ UNCHANGED store
      ]_vars

\* C20 -- Withdrawal floor.  For the requests whose amount is a number: no
\* step of a withdraw request whose amount is below MIN_WITHDRAW changes a
\* balance or the withdrawal table, and when such a request reaches the
\* checks on the amount it is answered 400.  A request
\* of at least MIN_WITHDRAW that read a sufficient balance goes on to the
\* debit; the debit, applied to the row the request read, lowers the balance
\* by exactly the requested amount, and the insert that follows appends
\* exactly one record of that user and amount with status pending.
WithdrawalFloor ==
    [][\A req \in Requests :
          (req.type = "withdraw" /\ req.amount # NaN) =>
              /\ (req.amount < MIN_WITHDRAW /\ \E new \in BagToSet(reqs') : SetReq(req, new))
                 => /\ UNCHANGED <<users, withdrawal_history>>
                    /\ \A new \in BagToSet(reqs') : SetReq(req, new) => ~new.granted
              /\ (WithdrawRate(req) /\ RateLimitResult(req.user_id).ok) =>
                    IF req.amount < MIN_WITHDRAW
                    THEN SetReq(req, Respond(req, 400)) /\ UNCHANGED store
                    ELSE IF ToNumber(req.user.balance) >= req.amount * Scale
                    THEN \E new \in BagToSet(reqs') :
                            SetReq(req, new) /\ new.pc = "patch_user"
                    ELSE SetReq(req, Respond(req, 400)) /\ UNCHANGED store
              /\ WithdrawPatch(req) =>
                    /\ req.amount >= MIN_WITHDRAW
                    /\ UNCHANGED withdrawal_history
                    /\ users[req.user_id] = req.user
                       => users'[req.user_id].balance
                             = ToNumber(users[req.user_id].balance) - req.amount * Scale
              /\ WithdrawInsert(req) =>
                    /\ withdrawal_history' =
                          Append(withdrawal_history,
                                 [user_id |-> req.user_id, amount |-> req.amount,
                                  status |-> "pending"])
                    /\ UNCHANGED users
                    /\ \E new \in BagToSet(reqs') :
                          SetReq(req, new) /\ new.pc = "done" /\ new.status = 200
      ]_vars

\* A withdrawal below the minimum was answered 400 and one of exactly the
\* minimum succeeded: the balance is lower by that amount and the table
\* holds the one pending record.
FloorRefusedThresholdPaid ==
    \E low, ok \in Requests :
        /\ low.type = "withdraw" /\ low.pc = "done" /\ low.status = 400
        /\ low.amount > 0 /\ low.amount < MIN_WITHDRAW
        /\ <<low.user_id, low.action_id, "withdraw">> \in accepted
        /\ ok.type = "withdraw" /\ ok.pc = "done" /\ ok.status = 200
        /\ ok.amount = MIN_WITHDRAW /\ ok.user_id = low.user_id
        /\ users[ok.user_id].balance = (1500 - MIN_WITHDRAW) * Scale
        /\ withdrawal_history = <<[user_id |-> ok.user_id, amount |-> MIN_WITHDRAW,
                                   status |-> "pending"]>>

\* C21 -- Balance is never negative.  In every reachable state, after any
\* sequence and any interleaving of ad-view, spin, task, commission and
\* withdraw requests, the stored balance of every user is a number that is
\* greater than or equal to zero.
BalanceNonNegative ==
    \A u \in UserIds : users[u].balance # NaN /\ users[u].balance >= 0

\* This step is a step of request req.
Steps(req) == reqs' # reqs /\ \E new \in BagToSet(reqs') : SetReq(req, new)

\* The request has read its user and not yet answered.
PastUserRead(req) ==
    /\ req.type \in ActionTypes
    /\ req.pc \in {"rate", "membership", "check_completed", "fetch_task", "patch_task",
                   "insert_completion", "patch_user", "insert_withdrawal"}

\* C22 -- A banned user never receives or spends balance.  A token-carrying
\* request or a generateActionId request that reads its user and finds
\* is_banned true is answered 403 by that step, which changes no table; a
\* commission that reads a banned referrer ends there without a write and
\* leaves the answer of the reward request as it was, and a commission
\* request that reads a banned referrer is answered 500 without a write.  A
\* handler goes on past
\* the read of its user only with a row that is not banned.  A balance is
\* changed only by the PATCH of such a handler on its own user or by the
\* PATCH of a commission on the referrer it read, and a token row is added
\* only by a generateActionId request that read a user who is not banned.
BannedNeverPaid ==
    [][/\ \A req \in Requests :
            /\ (/\ req.type \in ActionTypes \cup {"generateActionId"}
                /\ req.pc = "fetch_user"
                /\ GetUser(req.user_id).present /\ GetUser(req.user_id).is_banned
                /\ Steps(req))
               => SetReq(req, Respond(req, 403)) /\ UNCHANGED store
            /\ (/\ req.pc = "commission_get"
                /\ GetUser(req.user.ref_by).present /\ GetUser(req.user.ref_by).is_banned
                /\ Steps(req))
               => /\ \E new \in BagToSet(reqs') :
                        SetReq(req, new) /\ new.pc = "done" /\ new.status = req.status
                  /\ UNCHANGED store
            /\ (/\ req.type = "commission" /\ req.pc = "endpoint_get"
                /\ GetUser(req.referrer_id).present /\ GetUser(req.referrer_id).is_banned
                /\ Steps(req))
               => SetReq(req, Respond(req, 500)) /\ UNCHANGED store
            /\ PastUserRead(req) => req.user.present /\ ~req.user.is_banned
       /\ \A u \in UserIds :
            users'[u].balance # users[u].balance =>
                \E req \in Requests :
                    /\ Steps(req)
                    /\ \/ /\ PastUserRead(req) /\ req.pc = "patch_user"
                          /\ req.user_id = u /\ ~req.user.is_banned
                       \/ /\ req.pc = "commission_patch" /\ req.user.ref_by = u
                          /\ ~users[u].is_banned
                       \/ /\ req.pc = "endpoint_patch" /\ req.referrer_id = u
                          /\ ~users[u].is_banned
       /\ temp_actions' \ temp_actions # {} =>
            \E req \in Requests :
                /\ req.type = "generateActionId" /\ req.pc = "insert_action"
                /\ Steps(req)
                /\ ~users[req.user_id].is_banned
                /\ \A a \in temp_actions' \ temp_actions : a.user_id = req.user_id
      ]_vars

\* The ad view of user 1 was rewarded and its commission ended at the read of
\* the banned referrer, whose balance is as it was; the referrer asked for a
\* token and was answered 403, and no token was issued.
BannedReferrerUnpaid ==
    \E ad, gen \in Requests :
        /\ ad.type = "watchAd" /\ ad.user_id = 1 /\ ad.granted
        /\ ad.pc = "done" /\ ad.status = 200
        /\ users[2].is_banned /\ users[1].ref_by = 2
        /\ users[2].balance = 0 /\ commission_history = <<>>
        /\ gen.type = "generateActionId" /\ gen.user_id = 2
        /\ gen.pc = "done" /\ gen.status = 403
        /\ Len(issued) = 1

\* C23 -- Commission arithmetic.  The PATCH of a commission, applied to the
\* referrer row that was read with a balance of a whole number of hundredths,
\* leaves the balance at exactly that number plus source reward times 0.05
\* (3 credits exactly 0.15 on a balance of 0), and the audit record that
\* follows holds exactly that amount; a reward whose commission is below the
\* floor starts no commission, so that no step of its request changes the
\* balance of the referrer or appends an audit record.
CommissionArithmetic ==
    [][\A req \in Requests :
          LET exact == REFERRAL_COMMISSION_PERCENT * req.reward
              referrer == users[req.user.ref_by]
          IN  /\ (/\ CommissionPatch(req)
                  /\ referrer.balance_ulps = 0
                  /\ req.payload = BalanceColumns(Plus(BalanceOf(referrer),
                                                       CommissionAmount(req.reward))))
                 => BalanceOf(users'[req.user.ref_by])
                       = Double(BalanceOf(referrer).c + exact)
              /\ CommissionPost(req)
                 => /\ Len(commission_history') = Len(commission_history) + 1
                    /\ commission_history'[Len(commission_history')].amount = exact
                    /\ commission_history'[Len(commission_history')].amount_ulps = 0
              /\ (req.pc \in {"commission_get", "commission_patch", "commission_post"})
                 => ~CommissionTooSmall(req.reward)
      ]_vars

\* C24 -- Commission abort.  When the read of processCommission finds no
\* referrer row, or a banned referrer, the commission ends with that step: no
\* table changes (no balance, no audit record), and the reward request, whose
\* reward was written, keeps its answer 200.
CommissionAbort ==
    [][\A req \in Requests :
          (/\ CommissionGet(req)
           /\ ~GetUser(req.user.ref_by).present \/ GetUser(req.user.ref_by).is_banned)
          => /\ UNCHANGED store
             /\ req.status = 200 /\ req.granted
             /\ \E new \in BagToSet(reqs') :
                   /\ SetReq(req, new)
                   /\ new.pc = "done" /\ new.status = 200 /\ new.granted
      ]_vars

\* The ad view of user 1, whose referrer does not exist, was answered 200:
\* its reward is on the balance and the commission left no trace.
MissingReferrerAdPaid ==
    \E req \in Requests :
        /\ req.type = "watchAd" /\ req.pc = "done" /\ req.status = 200 /\ req.granted
        /\ users[req.user_id].ref_by = 2 /\ ~users[2].present
        /\ users[2] = NoUser
        /\ users[req.user_id].balance = (1500 + REWARD_PER_AD) * Scale
        /\ commission_history = <<>>

\* A step of the commission of request req.
CommissionStep(req) ==
    CommissionGet(req) \/ CommissionPatch(req) \/ CommissionPost(req) \/ CommissionFails(req)

\* C25 -- Commission is fire-and-forget.  The step that writes the reward of
\* an ad view decides the answer 200 before any step of the commission is
\* taken; every step of the commission, a failing store call included, leaves
\* the request answered 200 and leaves the row of the referee as it is; and
\* a failing store call of the commission changes no table and ends the
\* request.
FireAndForget ==
    [][\A req \in Requests :
          /\ WatchAdPatch(req)
             => \E new \in BagToSet(reqs') :
                   /\ SetReq(req, new) /\ new.status = 200 /\ new.granted
                   /\ new.pc \in {"commission_get", "done"}
                   /\ new.pc = "commission_get" <=> req.user.ref_by # NULL
          /\ CommissionStep(req)
             => /\ req.status = 200 /\ req.granted
                /\ \E new \in BagToSet(reqs') :
                      SetReq(req, new) /\ new.status = 200 /\ new.granted
                /\ users'[req.user_id] = users[req.user_id]
          /\ (CommissionFails(req)
              /\ ~(CommissionGet(req) \/ CommissionPatch(req) \/ CommissionPost(req)))
             => /\ UNCHANGED store
                /\ \E new \in BagToSet(reqs') : SetReq(req, new) /\ new.pc = "done"
      ]_vars

\* The insert of the audit record failed after the referrer was credited:
\* the ad view is answered 200 and the referee has its reward and its count.
CommissionFailedAdPaid ==
    \E req \in Requests :
        /\ req.type = "watchAd" /\ req.pc = "done" /\ req.status = 200 /\ req.granted
        /\ users[req.user_id].balance = (1500 + REWARD_PER_AD) * Scale
        /\ users[req.user_id].ads_watched_today = DAILY_MAX_ADS
        /\ users[2].balance = REFERRAL_COMMISSION_PERCENT * REWARD_PER_AD
        /\ commission_history = <<>>

\* Request new arrives in this step.
Arrives(new) == reqs' = reqs (+) SetToBag({new})

\* C26 -- Identity gate.  A request of a type other than commission that
\* arrives with initData that is missing or fails validateInitData is
\* answered 401 on arrival: the step changes no table, the request has
\* consumed no token and written nothing, and it takes no further step, so
\* that no handler runs for it.  Every request that enters a handler carries
\* initData that passes the check at its arrival.
IdentityGate ==
    [][/\ \A new \in BagToSet(reqs') :
            (Arrives(new) /\ new.type # "commission")
            => IF ValidateInitData(new.initData, now)
               THEN new.status # 401
               ELSE /\ new.pc = "done" /\ new.status = 401
                    /\ ~new.removed /\ ~new.granted
                    /\ UNCHANGED store
       /\ \A req \in Requests : req.status = 401 => req.pc = "done" /\ ~Steps(req)
      ]_vars

\* A watchAd request whose initData expired (it was good at StartTime) was
\* answered 401 and the tokens and the user are as they were, while a
\* getUserData request of a good session was served.
ExpiredSessionRefused ==
    \E bad, good \in Requests :
        /\ bad.type = "watchAd" /\ bad.pc = "done" /\ bad.status = 401
        /\ bad.initData.signed_with = BOT_TOKEN /\ bad.initData.auth_date # NULL
        /\ ValidateInitData(bad.initData, StartTime)
        /\ good.type = "getUserData" /\ good.pc = "done" /\ good.status = 200
        /\ Cardinality(temp_actions) = 2
        /\ users[1].balance = 1500 * Scale

\* The input of the request is missing or malformed: no action id, an
\* unknown action type asked of generateActionId, or a withdraw amount that
\* is not a number of at least MIN_WITHDRAW.
MalformedInput(req) ==
    \/ req.type \in ActionTypes /\ req.action_id = NoActionId
    \/ req.type = "generateActionId" /\ req.action_type \notin ActionTypes
    \/ req.type = "withdraw" /\ ~(req.amount # NaN /\ req.amount >= MIN_WITHDRAW)

\* C27 -- Validation errors short-circuit before any store mutation.  In
\* every reachable state, a request with missing or malformed input that was
\* answered 400 has deleted no token row and has written nothing.
ValidationBeforeMutation ==
    \A req \in Requests :
        (req.pc = "done" /\ req.status = 400 /\ MalformedInput(req))
        => ~req.removed /\ ~HasWritten(req)

\* C28: a generateActionId request ends with success exactly when its user
\* exists, is not banned and the requested kind is one of the accepted kinds;
\* the step that answers success adds exactly one row to temp_actions, a new
\* one, bound to the requesting user and the requested kind, and returns its
\* value; every other step of the request, the one that answers an error
\* included, leaves temp_actions as it was, and the error is 400 or 403.
Entitled(req) ==
    /\ GetUser(req.user_id).present
    /\ ~GetUser(req.user_id).is_banned
    /\ req.action_type \in ActionTypes

IssuedBy(new) ==
    \E row \in temp_actions' \ temp_actions :
        /\ temp_actions' = temp_actions \cup {row}
        /\ row.user_id = new.user_id
        /\ row.action_type = new.action_type
        /\ row.action_id = new.action_id
        /\ \A other \in temp_actions : other.action_id # row.action_id

AnswersIssue(new) ==
    /\ new.type = "generateActionId" /\ new.pc = "done"
    /\ \/ Arrives(new)
       \/ \E req \in Requests : req.pc # "done" /\ reqs' # reqs /\ SetReq(req, new)

TokenIssuance ==
    [][/\ \A new \in BagToSet(reqs') :
            AnswersIssue(new)
            => IF Entitled(new)
               THEN new.status = 200 /\ IssuedBy(new)
               ELSE new.status \in {400, 403} /\ temp_actions' = temp_actions
       /\ (\A new \in BagToSet(reqs') : ~AnswersIssue(new))
            => temp_actions' = temp_actions
      ]_vars

\* Witness of C28: a token was issued to user 2 next to the token of user 1,
\* and user 1 is banned.
TokenIssuedToUser ==
    /\ users[1].is_banned
    /\ \E req \in Requests :
          /\ req.type = "generateActionId" /\ req.pc = "done" /\ req.status = 200
          /\ \E row \in temp_actions :
                row.action_id = req.action_id /\ row.user_id = 2
                /\ row.action_type = "withdraw"

\* C29: eligibility checks precede the first reward write.  A watchAd,
\* spinResult, withdraw, completeTask or completeNewTask request whose token
\* was consumed and that has written nothing so far takes a step: if the step
\* rejects it (404, 403, 429 or 400), or if it is a further check, the users
\* table (balance, counters, limit timestamps, last_activity), the task
\* counter, the completion table and the withdrawal table are unchanged, and
\* the rejected request was granted nothing; only a step that starts the
\* writes of an eligible request changes them.
RewardingTypes == {"watchAd", "spinResult", "withdraw", "completeTask", "completeNewTask"}

RejectionStatus == {400, 403, 404, 429}

EligibilityBeforeWrite ==
    [][\A req \in Requests :
          (/\ req.type \in RewardingTypes /\ req.removed
           /\ req.pc # "done" /\ ~HasWritten(req) /\ Steps(req))
          => \A new \in BagToSet(reqs') :
                SetReq(req, new)
                => /\ (new.pc = "done" /\ new.status # 200)
                        => /\ new.status \in RejectionStatus /\ ~new.granted
                           /\ UNCHANGED <<users, tasks_new, user_tasks_new,
                                          withdrawal_history>>
                   /\ (new.pc # "done" /\ ~HasWritten(new))
                        => UNCHANGED <<users, tasks_new, user_tasks_new,
                                       withdrawal_history>>
      ]_vars

\* Witness of C29: after an ad view was granted to a user one below the cap,
\* a second ad request of the same user consumed its token, reached the cap
\* check and was rejected there.
RejectedAtCapAfterConsumption ==
    \E req \in Requests, first \in Requests :
        /\ first.type = "watchAd" /\ first.granted /\ first.user_id = req.user_id
        /\ req.type = "watchAd" /\ req.removed /\ ~req.granted
        /\ req.pc = "done" /\ req.status = 403
        /\ ~users[req.user_id].is_banned
        /\ users[req.user_id].ads_watched_today = DAILY_MAX_ADS

\* C30: the reward write of watchAd is a read-then-write without a guard.
\* Whatever the users row holds when the PATCH of an ad request is applied,
\* also when another request changed the row since this one read it, the
\* request is answered 200 and the row takes the balance and the counter that
\* were computed from the row the request read: the balance read plus
\* REWARD_PER_AD and the counter read plus one.
UnguardedReadThenWrite ==
    [][\A req \in Requests :
          (req.type = "watchAd" /\ req.pc = "patch_user" /\ Steps(req))
          => LET written == users'[req.user_id] IN
             /\ BalanceOf(written)
                  = Plus(BalanceOf(req.user), Double(REWARD_PER_AD * Scale))
             /\ written.ads_watched_today = req.user.ads_watched_today + 1
             /\ \E new \in BagToSet(reqs') :
                   SetReq(req, new) /\ new.status = 200 /\ new.granted
      ]_vars

\* Witness of C30: two ad requests of user 1 with distinct tokens were both
\* answered 200, and the stored balance and counter stand one reward and one
\* count above the initial 1500 and 0.
LostAdUpdate ==
    \E r1, r2 \in Requests :
        /\ r1.type = "watchAd" /\ r2.type = "watchAd"
        /\ r1.user_id = 1 /\ r2.user_id = 1 /\ r1.action_id # r2.action_id
        /\ r1.status = 200 /\ r1.granted /\ r2.status = 200 /\ r2.granted
        /\ BalanceOf(users[1]) = Double((1500 + REWARD_PER_AD) * Scale)
        /\ users[1].ads_watched_today = 1

\* C31: the rate limit measures the spacing of reward-granting requests
\* only.  When a watchAd, spinResult, withdraw, completeTask or
\* completeNewTask request is refused with 429, the last_activity it was
\* measured against is the stamp of the reward or debit applied last to that
\* user, or a stamp the store held before the first request (the creation of
\* the user or an earlier reward): no other request wrote it.
RateLimitSpacesRewardsOnly ==
    [][\A req \in Requests :
          (req.type \in RewardingTypes /\ req.pc # "done" /\ Steps(req))
          => \A new \in BagToSet(reqs') :
                (SetReq(req, new) /\ new.pc = "done" /\ new.status = 429)
                => \/ users[req.user_id].last_activity = last_grant[req.user_id].at
                   \/ users[req.user_id].last_activity < StartTime
      ]_vars

\* C32: a withdrawal whose debit was written and whose insert into
\* withdrawal_history fails is answered 500; that step changes neither the
\* users table (the debited balance stays as written) nor withdrawal_history
\* (no record of the debit), and the request takes no further step.  An
\* insert that succeeds appends the record and answers 200.
WithdrawalNotCompensated ==
    [][\A req \in Requests :
          /\ (req.type = "withdraw" /\ req.pc = "insert_withdrawal" /\ Steps(req))
             => \A new \in BagToSet(reqs') :
                   SetReq(req, new)
                   => /\ new.pc = "done" /\ new.granted
                      /\ IF new.status = 200
                         THEN /\ Len(withdrawal_history') = Len(withdrawal_history) + 1
                              /\ UNCHANGED users
                         ELSE /\ new.status = 500
                              /\ UNCHANGED <<users, withdrawal_history>>
          /\ (req.type = "withdraw" /\ req.pc = "done") => ~Steps(req)
      ]_vars

\* Witness of C32: a withdrawal of 1000 was answered 500 after its debit:
\* the balance stands at 500 and there is no withdrawal record.
DebitedWithoutRecord ==
    \E req \in Requests :
        /\ req.type = "withdraw" /\ req.pc = "done" /\ req.status = 500 /\ req.granted
        /\ req.amount = 1000
        /\ BalanceOf(users[req.user_id]) = Double((1500 - 1000) * Scale)
        /\ withdrawal_history = <<>>

\* C33: counters are reset only by resetDailyLimitsIfExpired.  While the
\* requests of a user carry distinct tokens, however they overlap, a step
\* that lowers ads_watched_today or spins_today of the user is the PATCH of
\* resetDailyLimitsIfExpired and sets the counter to zero.
CountersResetOnly ==
    [][DistinctTokens =>
       \A u \in UserIds :
          /\ users'[u].ads_watched_today < users[u].ads_watched_today
                => /\ users'[u].ads_watched_today = 0
                   /\ \E req \in Requests :
                         req.pc = "reset_patch" /\ req.user_id = u /\ Steps(req)
          /\ users'[u].spins_today < users[u].spins_today
                => /\ users'[u].spins_today = 0
                   /\ \E req \in Requests :
                         req.pc = "reset_patch" /\ req.user_id = u /\ Steps(req)
      ]_vars

\* C34: capacity is not over-admitted under concurrency.  In every
\* reachable state, however the completion requests of distinct users
\* overlap, the number of users that hold a completion row of a task is at
\* most the max_users of the task.
CapacityNotOverAdmitted ==
    \A t \in TaskIds :
        tasks_new[t].present =>
            Cardinality({user_tasks_new[i].user_id :
                            i \in {j \in DOMAIN user_tasks_new :
                                      user_tasks_new[j].task_id = t}})
                <= tasks_new[t].max_users

\* A request in which validateAndUseActionId found the matching row and
\* judged it: it was accepted, or refused as expired.
FoundToken(req) ==
    /\ req.type \in ActionTypes
    /\ \/ <<req.user_id, req.action_id, req.type>> \in accepted /\ req.pc # "validate"
                                                               /\ req.pc # "consume"
       \/ req.pc = "done" /\ req.status = 408

\* C35 as stated: the step that ends validateAndUseActionId for a request
\* that found the matching row leaves no row of that id, whatever the answer.
TokenBurnedWhateverOutcome ==
    [][\A req \in Requests :
          (req.pc = "consume" /\ Steps(req))
              => ~\E a \in temp_actions' : a.id = req.record.id
      ]_vars

\* C35, amended: a token is burned by the request whose DELETE of the row
\* was carried out.  The step in which validateAndUseActionId deletes the
\* row it found, of an accepted or of an expired token, leaves no row of that
\* id; while a request that was accepted or refused as expired exists,
\* whatever it was answered later (ban, cap, rate limit or a store failure of
\* the handler), temp_actions holds no row of that token, and the lookup of
\* another request that presents the same token is answered 409.  A step of
\* validateAndUseActionId that is answered 500 leaves temp_actions as it was.
TokenBurned ==
    [][\A req \in Requests :
          /\ (req.pc = "consume" /\ Steps(req))
                => \A new \in BagToSet(reqs') :
                      (SetReq(req, new) /\ new.status # 500)
                      => ~\E a \in temp_actions' : a.id = req.record.id
          /\ (req.pc \in {"validate", "consume"} /\ Steps(req))
                => \A new \in BagToSet(reqs') :
                      (SetReq(req, new) /\ new.status = 500)
                      => temp_actions' = temp_actions
          /\ FoundToken(req)
                => /\ ~\E a \in temp_actions : a.action_id = req.action_id
                   /\ \A retry \in Requests :
                         (/\ retry.action_id = req.action_id /\ retry.pc = "validate"
                          /\ Steps(retry))
                         => \A new \in BagToSet(reqs') :
                               SetReq(retry, new)
                               => new.pc = "done" /\ new.status \in {409, 500}
      ]_vars

\* Witness of C35: an ad request that consumed its token was answered 500
\* for a store failure, and the retry with the same token was answered 409.
RetryRefusedAfterFailure ==
    \E req \in Requests, retry \in Requests :
        /\ req.type = "watchAd" /\ req.removed /\ req.pc = "done" /\ req.status = 500
        /\ retry.type = "watchAd" /\ retry.action_id = req.action_id
        /\ retry.user_id = req.user_id
        /\ ~retry.removed /\ retry.pc = "done" /\ retry.status = 409

RECURSIVE SumSeq(_)
SumSeq(s) == IF s = <<>> THEN 0 ELSE Head(s) + SumSeq(Tail(s))

RECURSIVE SumRewards(_)
\* The rewards, in hundredths, of the requests of the set S.
SumRewards(S) ==
    IF S = {} THEN 0
    ELSE LET r == CHOOSE x \in S : TRUE
         IN  reqs[r] * r.reward * Scale + SumRewards(S \ {r})

\* The sum, in hundredths, of the numeric amounts of the withdrawal records
\* of user u.
Withdrawn(u) ==
    LET mine == SelectSeq(withdrawal_history,
                          LAMBDA row : row.user_id = u /\ row.amount # NaN)
    IN  SumSeq([i \in 1..Len(mine) |-> mine[i].amount * Scale])

\* Everything ever credited to user u, in hundredths, rounded up: the balance
\* of the initial store (1500 for user 1), the rewards granted to u and the
\* commissions recorded for u.
Credited(u) ==
    LET mine == SelectSeq(commission_history, LAMBDA row : row.referrer_id = u)
    IN  (IF u = 1 THEN 1500 * Scale ELSE 0)
        + SumRewards({r \in Requests : /\ r.user_id = u /\ r.granted
                                       /\ r.type # "withdraw"})
        + SumSeq([i \in 1..Len(mine) |->
                     mine[i].amount + (IF mine[i].amount_ulps > 0 THEN 1 ELSE 0)])

\* C36: withdrawals never exceed earnings.  In every reachable state in
\* which the requests carry distinct tokens, however they overlap, the sum of
\* the amounts of the withdrawal records of a user is at most the sum of
\* everything ever credited to that user.
WithdrawalsWithinEarnings ==
    DistinctTokens => \A u \in UserIds : Withdrawn(u) <= Credited(u)

\* C37: balances grow only through verified requests.  A step that raises
\* the stored balance of a user is a step of a request that passed the check
\* of initData and whose token was accepted: the reward write of that user's
\* own request, or the commission write that follows the granted reward of a
\* request of a referee of that user, with the amount computed from that
\* reward.
BalancesGrowVerified ==
    [][\A u \in UserIds :
          Below(BalanceOf(users[u]), BalanceOf(users'[u]))
          => \E req \in Requests :
                /\ Steps(req)
                /\ req.type \in ActionTypes
                /\ <<req.user_id, req.action_id, req.type>> \in accepted
                /\ \/ req.user_id = u /\ req.pc = "patch_user"
                   \/ /\ req.pc = "commission_patch" /\ req.granted
                      /\ req.user.ref_by = u
      ]_vars


\* C38: the rate limit is not bypassed by a store failure: a reward request
\* whose read of last_activity inside checkRateLimit failed is not granted.
RateLimitFailsClosed ==
    \A req \in Requests : req.rate_read_failed => ~req.granted


\* No commission row names the same user as referrer and referee.
NoSelfCommission ==
    \A i \in DOMAIN commission_history :
        commission_history[i].referrer_id # commission_history[i].referee_id

\* C39: no user is their own referrer: no users row stores its own id as
\* ref_by, and no commission is paid to the user whose reward it comes from.
NoSelfReferral ==
    /\ \A u \in UserIds : users[u].present => users[u].ref_by # u
    /\ NoSelfCommission


\* The number of requests of type t of user u that match the description:
\* credited (the PATCH was applied) or answered 200.
CreditedRequests(u, t) ==
    LET rs == {r \in Requests : r.type = t /\ r.user_id = u /\ r.granted}
    IN  BagCardinality([r \in rs |-> reqs[r]])

SuccessfulRequests(u, t) ==
    LET rs == {r \in Requests : r.type = t /\ r.user_id = u
                                /\ r.pc = "done" /\ r.status = 200}
    IN  BagCardinality([r \in rs |-> reqs[r]])

\* C40: the two spin phases are ordered: every credited spinResult of a user
\* is preceded by a successful preSpin of that user that no other credited
\* spinResult has used, so at every moment the user has at least as many
\* successful preSpins as credited spinResults.
SpinPhasesOrdered ==
    \A u \in UserIds :
        CreditedRequests(u, "spinResult") <= SuccessfulRequests(u, "preSpin")

====
